---------------------------- MODULE Spec2Model ----------------------------
(***************************************************************************)
(* A model of the dokearley parsing engine: tokenizer, grammar model with  *)
(* nullable analysis and nullable-cycle detection, the Earley recognizer,  *)
(* the derivation finder, the output-spec interpreter and the error        *)
(* reporter.  Text is a sequence of one-character strings; names (lhs,     *)
(* placeholder names, types, field keys) are strings.                      *)
(***************************************************************************)
EXTENDS Integers, Sequences, FiniteSets, TLC

VARIABLES
    rules,      \* the rule list handed to the engine constructor
    engine,     \* "none" | "ready" (there is a grammar to parse with) | "rejected"
    grammar,    \* Dokearley::grammar / Grammar { productions }
    calls       \* one record per parse call: tokens, chart, position in parse()

vars == <<rules, engine, grammar, calls>>

(***************************************************************************)
(* Bounds of the model.                                                    *)
(***************************************************************************)
MaxInput == 3         \* characters of an input (the samples of a scenario are longer)
MaxReuseInput == 1    \* characters of an input when two calls share an engine
MaxRules == 2         \* rules of a generated grammar
MaxTokInput == 4      \* characters of an input that is only tokenized

(***************************************************************************)
(* Generic helpers.                                                        *)
(***************************************************************************)
Range(s) == {s[i] : i \in 1..Len(s)}

RECURSIVE SeqsUpTo(_, _)
SeqsUpTo(S, n) ==
    IF n = 0 THEN {<<>>}
    ELSE LET shorter == SeqsUpTo(S, n - 1)
         IN  shorter \cup {Append(s, c) : s \in {t \in shorter : Len(t) = n - 1}, c \in S}

\* All orders in which the elements of a finite set can be visited.
RECURSIVE Orders(_)
Orders(S) ==
    IF S = {} THEN {<<>>}
    ELSE UNION {{<<x>> \o o : o \in Orders(S \ {x})} : x \in S}

(***************************************************************************)
(* Tokens and the tokenizer.                                               *)
(***************************************************************************)
Digits == {"0", "1", "2", "3", "4", "5", "6", "7", "8", "9"}

is_ascii_digit(c) == c \in Digits

\* char::len_utf8; "U+E9" stands for a two-byte code point.
len_utf8(c) == IF c = "U+E9" THEN 2 ELSE 1

RECURSIVE ByteLen(_)
ByteLen(text) ==
    IF text = <<>> THEN 0 ELSE len_utf8(Head(text)) + ByteLen(Tail(text))

DigitVal(c) ==
    CASE c = "0" -> 0 [] c = "1" -> 1 [] c = "2" -> 2 [] c = "3" -> 3
      [] c = "4" -> 4 [] c = "5" -> 5 [] c = "6" -> 6 [] c = "7" -> 7
      [] c = "8" -> 8 [] c = "9" -> 9

I64MaxDigits ==
    <<"9","2","2","3","3","7","2","0","3","6","8","5","4","7","7","5","8","0","7">>

RECURSIVE StripZeros(_)
StripZeros(t) ==
    IF Len(t) > 1 /\ Head(t) = "0" THEN StripZeros(Tail(t)) ELSE t

RECURSIVE DigitsLeq(_, _)
DigitsLeq(a, b) ==
    \/ a = <<>>
    \/ DigitVal(Head(a)) < DigitVal(Head(b))
    \/ Head(a) = Head(b) /\ DigitsLeq(Tail(a), Tail(b))

\* str::parse::<i64> on a run of ASCII digits and '.': digits only, in range.
ParsesI64(raw) ==
    /\ raw # <<>>
    /\ \A i \in 1..Len(raw) : is_ascii_digit(raw[i])
    /\ LET d == StripZeros(raw)
       IN  \/ Len(d) < Len(I64MaxDigits)
           \/ Len(d) = Len(I64MaxDigits) /\ DigitsLeq(d, I64MaxDigits)

\* str::parse::<f64> on a run that starts with a digit: at most one '.'.
ParsesF64(raw) ==
    /\ raw # <<>>
    /\ Cardinality({i \in 1..Len(raw) : raw[i] = "."}) <= 1

RECURSIVE DigitsValue(_, _)
DigitsValue(t, acc) ==
    IF t = <<>> THEN acc ELSE DigitsValue(Tail(t), 10 * acc + DigitVal(Head(t)))

Token(kind, text, s, e) == [kind |-> kind, text |-> text, span |-> [start |-> s, end |-> e]]

RECURSIVE CharTokens(_, _)
CharTokens(raw, b) ==
    IF raw = <<>> THEN <<>>
    ELSE <<Token("Char", <<Head(raw)>>, b, b + len_utf8(Head(raw)))>>
         \o CharTokens(Tail(raw), b + len_utf8(Head(raw)))

\* First index >= i whose character satisfies the stop test, or Len+1.
RECURSIVE ScanQuote(_, _)
ScanQuote(input, i) ==
    IF i > Len(input) \/ input[i] = "\"" THEN i ELSE ScanQuote(input, i + 1)

\* A number scan that stops at '.'.
RECURSIVE ScanDigits(_, _)
ScanDigits(input, i) ==
    IF i > Len(input) \/ ~is_ascii_digit(input[i]) THEN i ELSE ScanDigits(input, i + 1)

RECURSIVE ScanNumber(_, _)
ScanNumber(input, i) ==
    IF i > Len(input) \/ ~(is_ascii_digit(input[i]) \/ input[i] = ".")
    THEN i ELSE ScanNumber(input, i + 1)

\* The while loop of tokenize: i is the index of the current character,
\* b its byte offset (byte_pos).
RECURSIVE TokenizeFrom(_, _, _)
TokenizeFrom(input, i, b) ==
    IF i > Len(input) THEN <<>>
    ELSE LET c == input[i] IN
         IF c = "\"" THEN
            LET j       == ScanQuote(input, i + 1)
                text    == SubSeq(input, i + 1, j - 1)
                str_end == b + 1 + ByteLen(text)
            IN  <<Token("StringLit", text, b, str_end + 1)>>
                \o TokenizeFrom(input, j + 1, str_end + 1)
         ELSE IF is_ascii_digit(c) THEN
            LET j       == ScanNumber(input, i)
                raw     == SubSeq(input, i, j - 1)
                end_pos == b + ByteLen(raw)
                toks    == IF ParsesI64(raw) THEN <<Token("Int", raw, b, end_pos)>>
                           ELSE IF ParsesF64(raw) THEN <<Token("Float", raw, b, end_pos)>>
                           ELSE CharTokens(raw, b)
            IN  toks \o TokenizeFrom(input, j, end_pos)
         ELSE <<Token("Char", <<c>>, b, b + len_utf8(c))>>
              \o TokenizeFrom(input, i + 1, b + len_utf8(c))

\* A tokenizer without the string and number branches.
TokenizeChars(input) == CharTokens(input, 0)

tokenize(input) == TokenizeFrom(input, 1, 0)

\* str::to_ascii_lowercase on the type names of the model.
to_ascii_lowercase(typ) ==
    CASE typ \in {"Int", "INT", "int"} -> "int"
      [] typ \in {"Float", "FLOAT", "float"} -> "float"
      [] typ \in {"String", "STRING", "string"} -> "string"
      [] typ \in {"Str", "STR", "str"} -> "str"
      [] OTHER -> typ

is_builtin(typ, tok) ==
    LET t == to_ascii_lowercase(typ) IN
    CASE t = "int" -> tok.kind = "Int"
      [] t = "float" -> tok.kind = "Float"
      [] t \in {"string", "str"} -> tok.kind = "StringLit"
      [] OTHER -> FALSE

(***************************************************************************)
(* Grammar model.                                                          *)
(***************************************************************************)
Terminal(lit) == [k |-> "T", lit |-> lit, name |-> "", typ |-> ""]
NonTerminal(name) == [k |-> "N", lit |-> <<>>, name |-> name, typ |-> ""]
Placeholder(name, typ) == [k |-> "P", lit |-> <<>>, name |-> name, typ |-> typ]

\* ValueSpec; a number is m * 10^(-e).
Num(m, e) == [m |-> m, e |-> e]
Identifier(id) == [k |-> "Identifier", id |-> id, s |-> <<>>, n |-> Num(0, 0), b |-> FALSE]
StringLiteral(s) == [k |-> "StringLiteral", id |-> "", s |-> s, n |-> Num(0, 0), b |-> FALSE]
IntegerLiteral(i) == [k |-> "IntegerLiteral", id |-> "", s |-> <<>>, n |-> Num(i, 0), b |-> FALSE]
FloatLiteral(m, e) == [k |-> "FloatLiteral", id |-> "", s |-> <<>>, n |-> Num(m, e), b |-> FALSE]
BoolLiteral(b) == [k |-> "BoolLiteral", id |-> "", s |-> <<>>, n |-> Num(0, 0), b |-> b]

EmptyMap == <<>>
MapInsert(m, key, v) == (key :> v) @@ m

\* OutSpec
OutValue(spec) == [kind |-> "Value", typ |-> "", fields |-> EmptyMap, val |-> spec]
OutResource(typ, fields) ==
    [kind |-> "Resource", typ |-> typ, fields |-> fields, val |-> BoolLiteral(FALSE)]
OutDict(fields) ==
    [kind |-> "Dict", typ |-> "", fields |-> fields, val |-> BoolLiteral(FALSE)]
OutTransparent ==
    [kind |-> "Transparent", typ |-> "", fields |-> EmptyMap, val |-> BoolLiteral(FALSE)]

Production(lhs, rhs, out) == [lhs |-> lhs, rhs |-> rhs, out |-> out]

\* Option<RuleRhs>; fields is the written list of (key, ValueSpec) pairs.
RhsNone == [kind |-> "None", name |-> "", fields |-> <<>>]
RhsType(name) == [kind |-> "Type", name |-> name, fields |-> <<>>]
RhsTypeWithFields(name, fields) == [kind |-> "TypeWithFields", name |-> name, fields |-> fields]
RhsDictionary(fields) == [kind |-> "Dictionary", name |-> "", fields |-> fields]
RhsTransparent == [kind |-> "Transparent", name |-> "", fields |-> <<>>]

\* The out field of a Production literal that is OutSpec::Value(spec); no
\* rule text gives it.
RhsValue(spec) == [kind |-> "Value", name |-> "", fields |-> <<>>, val |-> spec]

Normal(symbols) == [kind |-> "Normal", symbols |-> symbols]
Disjunction(symbols) == [kind |-> "Disjunction", symbols |-> symbols]
Rule(lhs, pattern, rhs) == [lhs |-> lhs, pattern |-> pattern, rhs |-> rhs]

\* hash.insert(k, v) for each pair in order: a later pair replaces an earlier one.
RECURSIVE FieldsToMap(_, _)
FieldsToMap(pairs, acc) ==
    IF pairs = <<>> THEN acc
    ELSE FieldsToMap(Tail(pairs), MapInsert(acc, Head(pairs)[1], Head(pairs)[2]))

\* impl From<Option<RuleRhs>> for OutSpec
OutSpecFrom(rhs) ==
    CASE rhs.kind = "Type" -> OutResource(rhs.name, EmptyMap)
      [] rhs.kind = "TypeWithFields" -> OutResource(rhs.name, FieldsToMap(rhs.fields, EmptyMap))
      [] rhs.kind = "Transparent" -> OutTransparent
      [] rhs.kind = "Dictionary" -> OutDict(FieldsToMap(rhs.fields, EmptyMap))
      [] rhs.kind = "None" -> OutDict(EmptyMap)
      [] rhs.kind = "Value" -> OutValue(rhs.val)

\* The map_with closure of rules(): the defaults are written to a clone of
\* the rule list that is dropped; the parsed list is returned as it was.
rules_map(raw) ==
    LET cloned == [i \in 1..Len(raw) |->
                     IF raw[i].rhs.kind = "None"
                     THEN [raw[i] EXCEPT !.rhs = RhsType(raw[i].lhs)]
                     ELSE raw[i]]
    IN  raw

\* impl From<grammar_parser::Symbol> for Vec<recognizer::Symbol>
RECURSIVE SplitTerminal(_)
SplitTerminal(text) ==
    IF text = <<>> THEN <<>>
    ELSE <<Terminal(<<Head(text)>>)>> \o SplitTerminal(Tail(text))

SymbolInto(sym) == IF sym.k = "T" THEN SplitTerminal(sym.lit) ELSE <<sym>>

RECURSIVE FlatMapSymbols(_)
FlatMapSymbols(symbols) ==
    IF symbols = <<>> THEN <<>>
    ELSE SymbolInto(Head(symbols)) \o FlatMapSymbols(Tail(symbols))

\* A builder that makes one production of a whole disjunction.
RECURSIVE GrammarFromRulesJoined(_)
GrammarFromRulesJoined(rs) ==
    IF rs = <<>> THEN <<>>
    ELSE <<Production(Head(rs).lhs, FlatMapSymbols(Head(rs).pattern.symbols),
                      IF Head(rs).pattern.kind = "Normal" THEN OutSpecFrom(Head(rs).rhs)
                      ELSE OutTransparent)>>
         \o GrammarFromRulesJoined(Tail(rs))

\* impl From<&Vec<Rule>> for Grammar, then the conversion of each production.
RECURSIVE GrammarFromRules(_)
GrammarFromRules(rs) ==
    IF rs = <<>> THEN <<>>
    ELSE LET rule == Head(rs) IN
         (IF rule.pattern.kind = "Normal"
          THEN <<Production(rule.lhs, FlatMapSymbols(rule.pattern.symbols),
                            OutSpecFrom(rule.rhs))>>
          ELSE [i \in 1..Len(rule.pattern.symbols) |->
                  Production(rule.lhs, FlatMapSymbols(<<rule.pattern.symbols[i]>>),
                             OutTransparent)])
         \o GrammarFromRules(Tail(rs))

\* productions[pid], ids from 0.
Prod(g, pid) == g[pid + 1]
ProdIds(g) == 0..(Len(g) - 1)
RhsLen(g, pid) == Len(Prod(g, pid).rhs)
\* rhs[dot], dots from 0.
SymAt(g, pid, dot) == Prod(g, pid).rhs[dot + 1]

\* The name a symbol stands for in nullable analysis and completion.
SymIsNullable(sym, nullable) ==
    CASE sym.k = "N" -> sym.name \in nullable
      [] sym.k = "P" -> sym.typ \in nullable
      [] sym.k = "T" -> FALSE

AllNullable(rhs, nullable) == \A i \in 1..Len(rhs) : SymIsNullable(rhs[i], nullable)

\* One execution of the for loop over the productions.
RECURSIVE NullablePass(_, _, _, _)
NullablePass(g, i, nullable, changed) ==
    IF i > Len(g) THEN [nullable |-> nullable, changed |-> changed]
    ELSE IF g[i].lhs \in nullable THEN NullablePass(g, i + 1, nullable, changed)
    ELSE IF AllNullable(g[i].rhs, nullable)
         THEN NullablePass(g, i + 1, nullable \cup {g[i].lhs}, TRUE)
         ELSE NullablePass(g, i + 1, nullable, changed)

\* The for loop run once, without the enclosing while.
NullableOnePass(g, nullable) == NullablePass(g, 1, nullable, FALSE).nullable

RECURSIVE NullableLoop(_, _)
NullableLoop(g, nullable) ==
    LET r == NullablePass(g, 1, nullable, FALSE)
    IN  IF r.changed THEN NullableLoop(g, r.nullable) ELSE r.nullable

compute_nullable(g) == NullableLoop(g, {})

\* Ids of the productions of a name, in production order.
RECURSIVE ProdsForFrom(_, _, _)
ProdsForFrom(g, name, i) ==
    IF i > Len(g) THEN <<>>
    ELSE (IF g[i].lhs = name THEN <<i - 1>> ELSE <<>>) \o ProdsForFrom(g, name, i + 1)

prods_for(g, name) == ProdsForFrom(g, name, 1)

\* The elements of S in the order a hash iteration visits them; ord lists
\* every name once.
RECURSIVE InOrder(_, _)
InOrder(S, ord) ==
    IF ord = <<>> THEN <<>>
    ELSE (IF Head(ord) \in S THEN <<Head(ord)>> ELSE <<>>) \o InOrder(S, Tail(ord))

SymbolNames(g) ==
    {g[i].lhs : i \in 1..Len(g)}
    \cup UNION {{IF s.k = "P" THEN s.typ ELSE s.name : s \in {t \in Range(g[i].rhs) : t.k # "T"}}
                : i \in 1..Len(g)}

\* children of sym: names in the all-nullable right-hand sides of sym.
NullableChildren(g, sym, null_set) ==
    UNION {{IF s.k = "P" THEN s.typ ELSE s.name : s \in {t \in Range(g[i].rhs) : t.k # "T"}}
           : i \in {j \in 1..Len(g) : g[j].lhs = sym /\ AllNullable(g[j].rhs, null_set)}}

Adjacency(g, null_set, ord) ==
    [sym \in null_set |->
        InOrder({c \in NullableChildren(g, sym, null_set) : c \in null_set}, ord)]

ColorOf(color, w) == IF w \in DOMAIN color THEN color[w] ELSE 0

\* fn dfs: colors 0 = unvisited, 1 = visiting, 2 = visited.
RECURSIVE LoopDfs(_, _, _)
RECURSIVE LoopDfsNeighs(_, _, _, _)
LoopDfs(v, adj, color) ==
    LoopDfsNeighs(v, IF v \in DOMAIN adj THEN adj[v] ELSE <<>>, adj, MapInsert(color, v, 1))

LoopDfsNeighs(v, neighs, adj, color) ==
    IF neighs = <<>> THEN [cycle |-> FALSE, color |-> MapInsert(color, v, 2)]
    ELSE LET w == Head(neighs) IN
         CASE ColorOf(color, w) = 0 ->
                LET r == LoopDfs(w, adj, color)
                IN  IF r.cycle THEN r ELSE LoopDfsNeighs(v, Tail(neighs), adj, r.color)
           [] ColorOf(color, w) = 1 -> [cycle |-> TRUE, color |-> color]
           [] OTHER -> LoopDfsNeighs(v, Tail(neighs), adj, color)

RECURSIVE LoopRoots(_, _, _)
LoopRoots(roots, adj, color) ==
    IF roots = <<>> THEN FALSE
    ELSE IF ColorOf(color, Head(roots)) = 0
         THEN LET r == LoopDfs(Head(roots), adj, color)
              IN  IF r.cycle THEN TRUE ELSE LoopRoots(Tail(roots), adj, r.color)
         ELSE LoopRoots(Tail(roots), adj, color)

\* A check that rejects every grammar with a nullable name.
HasNullableName(g, ord1, ord2) == compute_nullable(g) # {}

\* Grammar::has_infinite_loop; ord1 is the iteration order of null_set,
\* ord2 that of the children sets.
has_infinite_loop(g, ord1, ord2) ==
    LET null_set == compute_nullable(g) IN
    IF null_set = {} THEN FALSE
    ELSE LET adj   == Adjacency(g, null_set, ord2)
             color == [s \in null_set |-> 0]
         IN  LoopRoots(InOrder(null_set, ord1), adj, color)

(***************************************************************************)
(* Chart and recognizer.  sets[pos] is a map from ItemKey to Item.         *)
(***************************************************************************)
ItemKey(prod_id, dot, start) == [prod_id |-> prod_id, dot |-> dot, start |-> start]
Item(prod_id, dot, start) == [key |-> ItemKey(prod_id, dot, start)]

\* tokens[pos], positions from 0.
Tok(tokens, pos) == tokens[pos + 1]

\* Chart::new
ChartNew(tokens) == [i \in 0..Len(tokens) |-> EmptyMap]

\* An add_item without the contains_key test: it reports every insert as new.
AddItemAlways(sets, pos, item) ==
    [sets  |-> [sets EXCEPT ![pos] = MapInsert(sets[pos], item.key, item)],
     added |-> TRUE]

\* Chart::add_item
add_item(sets, pos, item) ==
    IF item.key \in DOMAIN sets[pos]
    THEN [sets |-> sets, added |-> FALSE]
    ELSE [sets  |-> [sets EXCEPT ![pos] = MapInsert(sets[pos], item.key, item)],
          added |-> TRUE]

\* A nullable advance that moves the dot once without looking at the rhs.
NullableAdvanceUnchecked(g, sets, key, dot, pos, nullable) ==
    add_item(sets, pos, Item(key.prod_id, dot + 1, key.start)).sets

\* Chart::add_nullable_items: the while loop, dot is the local variable.
RECURSIVE NullableAdvance(_, _, _, _, _, _)
NullableAdvance(g, sets, key, dot, pos, nullable) ==
    IF dot >= RhsLen(g, key.prod_id) THEN sets
    ELSE IF ~SymIsNullable(SymAt(g, key.prod_id, dot), nullable) THEN sets
    ELSE LET r == add_item(sets, pos, Item(key.prod_id, dot + 1, key.start))
         IN  IF r.added
             THEN NullableAdvance(g, r.sets, key, dot + 1, pos, nullable)
             ELSE r.sets

add_nullable_items(g, sets, item, pos, nullable) ==
    NullableAdvance(g, sets, item.key, item.key.dot, pos, nullable)

\* The initialisation loop of recognize over prods_for(start).
RECURSIVE InitItems(_, _, _, _)
InitItems(g, sets, pids, nullable) ==
    IF pids = <<>> THEN sets
    ELSE LET it == Item(Head(pids), 0, 0)
             r  == add_item(sets, 0, it)
         IN  InitItems(g, add_nullable_items(g, r.sets, it, 0, nullable), Tail(pids), nullable)

\* Prediction: the loop over prods_for(name) in the NonTerminal and
\* Placeholder arms.
RECURSIVE Predict(_, _, _, _, _, _)
Predict(g, sets, pids, pos, nullable, changed) ==
    IF pids = <<>> THEN [sets |-> sets, changed |-> changed]
    ELSE LET new_it == Item(Head(pids), 0, pos)
             r      == add_item(sets, pos, new_it)
         IN  IF r.added
             THEN Predict(g, add_nullable_items(g, r.sets, new_it, pos, nullable),
                          Tail(pids), pos, nullable, TRUE)
             ELSE Predict(g, r.sets, Tail(pids), pos, nullable, changed)

\* A scan that moves the dot over two symbols.
ScanSkipsSymbol(sets, key, pos, changed) ==
    LET r == add_item(sets, pos + 1, Item(key.prod_id, key.dot + 2, key.start))
    IN  [sets |-> r.sets, changed |-> changed \/ r.added]

\* Scan: the advanced item goes to sets[pos + 1].
Scan(sets, key, pos, changed) ==
    LET r == add_item(sets, pos + 1, Item(key.prod_id, key.dot + 1, key.start))
    IN  [sets |-> r.sets, changed |-> changed \/ r.added]

\* The keys of sets[start] that wait for lhs.
WaitingKeys(g, sets, start, lhs) ==
    {k \in DOMAIN sets[start] :
        /\ k.dot < RhsLen(g, k.prod_id)
        /\ LET sym == SymAt(g, k.prod_id, k.dot)
           IN  \/ sym.k = "N" /\ sym.name = lhs
               \/ sym.k = "P" /\ sym.typ = lhs}

\* for wk in waiting_keys: the inserts commute, so the order of the
\* collected keys does not show in the result.
RECURSIVE CompleteAll(_, _, _, _)
CompleteAll(sets, waiting, pos, changed) ==
    IF waiting = {} THEN [sets |-> sets, changed |-> changed]
    ELSE LET wk == CHOOSE k \in waiting : TRUE
             r  == add_item(sets, pos, Item(wk.prod_id, wk.dot + 1, wk.start))
         IN  CompleteAll(r.sets, waiting \ {wk}, pos, changed \/ r.added)

\* A Placeholder arm that predicts the type also after a builtin scan.
PlaceholderArmAlwaysPredicts(g, tokens, sets, key, sym, pos, nullable, changed) ==
    IF pos < Len(tokens) /\ is_builtin(sym.typ, Tok(tokens, pos))
    THEN LET r == Scan(sets, key, pos, changed)
         IN  Predict(g, r.sets, prods_for(g, sym.typ), pos, nullable, r.changed)
    ELSE Predict(g, sets, prods_for(g, sym.typ), pos, nullable, changed)

\* The Placeholder arm of recognize.
PlaceholderArm(g, tokens, sets, key, sym, pos, nullable, changed) ==
    IF pos < Len(tokens) /\ is_builtin(sym.typ, Tok(tokens, pos))
    THEN Scan(sets, key, pos, changed)
    ELSE Predict(g, sets, prods_for(g, sym.typ), pos, nullable, changed)

\* A Terminal arm that scans whatever the token is.
TerminalArmAnyToken(tokens, sets, key, sym, pos, changed) ==
    IF pos < Len(tokens)
    THEN Scan(sets, key, pos, changed)
    ELSE [sets |-> sets, changed |-> changed]

\* The Terminal arm of recognize.
TerminalArm(tokens, sets, key, sym, pos, changed) ==
    IF pos < Len(tokens) /\ Tok(tokens, pos).text = sym.lit
    THEN Scan(sets, key, pos, changed)
    ELSE [sets |-> sets, changed |-> changed]

\* The body of `for key in keys` in recognize.
ProcessItem(g, tokens, sets, key, pos, nullable, changed) ==
    IF key.dot < RhsLen(g, key.prod_id)
    THEN LET next == SymAt(g, key.prod_id, key.dot) IN
         CASE next.k = "N" ->
                Predict(g, sets, prods_for(g, next.name), pos, nullable, changed)
           [] next.k = "T" -> TerminalArm(tokens, sets, key, next, pos, changed)
           [] next.k = "P" ->
                PlaceholderArm(g, tokens, sets, key, next, pos, nullable, changed)
    ELSE CompleteAll(sets,
                     WaitingKeys(g, sets, key.start, Prod(g, key.prod_id).lhs),
                     pos, changed)

\* Chart::accepted
accepted(g, tokens, sets, start) ==
    \E k \in DOMAIN sets[Len(tokens)] :
        /\ k.start = 0
        /\ k.dot = RhsLen(g, k.prod_id)
        /\ Prod(g, k.prod_id).lhs = start

(***************************************************************************)
(* Derivation finder.                                                      *)
(***************************************************************************)
\* usize::MAX, the rule of a terminal edge (the largest value of the model's integers).
TOKEN_EDGE == 2147483647

Edge(rule, finish) == [rule |-> rule, finish |-> finish]

EdgeBefore(a, b) == a.rule < b.rule \/ (a.rule = b.rule /\ a.finish < b.finish)

\* edges.sort_by(rule, then finish): a stable insertion sort.
RECURSIVE InsertEdge(_, _)
InsertEdge(sorted, e) ==
    IF sorted = <<>> THEN <<e>>
    ELSE IF EdgeBefore(e, Head(sorted)) THEN <<e>> \o sorted
    ELSE <<Head(sorted)>> \o InsertEdge(Tail(sorted), e)

\* A chart whose edge lists stay in the order they were pushed.
KeepPushOrder(edges) == edges

RECURSIVE SortEdges(_)
SortEdges(edges) ==
    IF edges = <<>> THEN <<>>
    ELSE InsertEdge(SortEdges(SubSeq(edges, 1, Len(edges) - 1)), edges[Len(edges)])

\* The completed items of sets[i] that start at st.
CompletedAt(g, sets, i, st) ==
    {k \in DOMAIN sets[i] : k.start = st /\ k.dot = RhsLen(g, k.prod_id)}

\* The lists chart[st] can hold before the sort: sets are visited in index
\* order, the items of one set in hash order.
RECURSIVE Pushed(_, _, _, _)
Pushed(g, sets, st, i) ==
    IF i < 0 THEN {<<>>}
    ELSE {prefix \o [j \in 1..Len(o) |-> Edge(o[j].prod_id, i)] :
            prefix \in Pushed(g, sets, st, i - 1),
            o \in Orders(CompletedAt(g, sets, i, st))}

LastSet(sets) == Cardinality(DOMAIN sets) - 1

\* The edge lists of the start positions 0..st, one push order each.
RECURSIVE ChartRows(_, _, _)
ChartRows(g, sets, st) ==
    IF st < 0 THEN {<<>>}
    ELSE {Append(rows, SortEdges(l)) :
            rows \in ChartRows(g, sets, st - 1),
            l \in Pushed(g, sets, st, LastSet(sets))}

\* Chart::chart_of_items: every edge chart the hash orders can give.
ChartsOfItems(g, sets) ==
    {[st \in 0..LastSet(sets) |-> rows[st + 1]] : rows \in ChartRows(g, sets, LastSet(sets))}

\* A filter that keeps the edges of every lhs.
FilterEdgesAnyLhs(g, edges, lhs) == edges

RECURSIVE FilterEdges(_, _, _)
FilterEdges(g, edges, lhs) ==
    IF edges = <<>> THEN <<>>
    ELSE (IF Prod(g, Head(edges).rule).lhs = lhs THEN <<Head(edges)>> ELSE <<>>)
         \o FilterEdges(g, Tail(edges), lhs)

\* edges_fn of top_list; panic: tokens[cur_start] is read out of bounds.
EdgesFn(g, chart, tokens, symbols, depth, cur_start) ==
    IF depth >= Len(symbols) THEN [panic |-> FALSE, edges |-> <<>>]
    ELSE LET sym == symbols[depth + 1] IN
         CASE sym.k = "T" ->
                [panic |-> FALSE,
                 edges |-> IF cur_start < Len(tokens) /\ Tok(tokens, cur_start).text = sym.lit
                           THEN <<Edge(TOKEN_EDGE, cur_start + 1)>> ELSE <<>>]
           [] sym.k = "N" ->
                [panic |-> FALSE,
                 edges |-> IF cur_start <= LastSet(chart)
                           THEN FilterEdges(g, chart[cur_start], sym.name) ELSE <<>>]
           [] sym.k = "P" ->
                IF cur_start >= Len(tokens) THEN [panic |-> TRUE, edges |-> <<>>]
                ELSE [panic |-> FALSE,
                      edges |-> IF is_builtin(sym.typ, Tok(tokens, cur_start))
                                THEN <<Edge(TOKEN_EDGE, cur_start + 1)>>
                                ELSE IF cur_start <= LastSet(chart)
                                THEN FilterEdges(g, chart[cur_start], sym.typ) ELSE <<>>]

\* fn dfs of top_list: st is "some" (a path), "none", or "panic".
RECURSIVE TopDfs(_, _, _, _, _, _, _)
RECURSIVE TopDfsEdges(_, _, _, _, _, _, _, _)
TopDfs(g, chart, tokens, symbols, finish, depth, start) ==
    IF depth = Len(symbols) /\ start = finish THEN [st |-> "some", path |-> <<>>]
    ELSE LET e == EdgesFn(g, chart, tokens, symbols, depth, start) IN
         IF e.panic THEN [st |-> "panic", path |-> <<>>]
         ELSE TopDfsEdges(g, chart, tokens, symbols, finish, depth, start, e.edges)

TopDfsEdges(g, chart, tokens, symbols, finish, depth, start, edges) ==
    IF edges = <<>> THEN [st |-> "none", path |-> <<>>]
    ELSE LET edge == Head(edges)
             r    == TopDfs(g, chart, tokens, symbols, finish, depth + 1, edge.finish)
         IN  CASE r.st = "some" ->
                    [st |-> "some", path |-> <<[start |-> start, edge |-> edge]>> \o r.path]
               [] r.st = "panic" -> r
               [] OTHER ->
                    TopDfsEdges(g, chart, tokens, symbols, finish, depth, start, Tail(edges))

\* Chart::top_list: the path of child edges of a completed edge.
top_list(g, chart, tokens, start, completed_edge) ==
    TopDfs(g, chart, tokens, Prod(g, completed_edge.rule).rhs, completed_edge.finish, 0, start)

TokenLeaf(tok) == [kind |-> "Token", tok |-> tok, rule |-> 0, children |-> <<>>]
TreeNode(rule, children) == [kind |-> "Node", tok |-> 0, rule |-> rule, children |-> children]

\* fn build of build_parse_tree.  active holds the calls build is inside of:
\* build is a function of (start, edge), so entering one of them again
\* recurses forever (st = "overflow").  Other outcomes: "ok", "panic_index"
\* (tokens read out of bounds), "panic_expect" (top_list found no path).
RECURSIVE Build(_, _, _, _, _, _)
RECURSIVE BuildChildren(_, _, _, _, _, _)
Build(g, chart, tokens, start, edge, active) ==
    IF edge.rule = TOKEN_EDGE THEN [st |-> "ok", tree |-> TokenLeaf(Tok(tokens, start))]
    ELSE IF <<start, edge>> \in active THEN [st |-> "overflow", tree |-> <<>>]
    ELSE LET p == top_list(g, chart, tokens, start, edge) IN
         CASE p.st = "panic" -> [st |-> "panic_index", tree |-> <<>>]
           [] p.st = "none" -> [st |-> "panic_expect", tree |-> <<>>]
           [] OTHER ->
                LET r == BuildChildren(g, chart, tokens, p.path, <<>>,
                                       active \cup {<<start, edge>>})
                IN  IF r.st = "ok"
                    THEN [st |-> "ok", tree |-> TreeNode(edge.rule, r.tree)]
                    ELSE r

BuildChildren(g, chart, tokens, path, done, active) ==
    IF path = <<>> THEN [st |-> "ok", tree |-> done]
    ELSE LET r == Build(g, chart, tokens, Head(path).start, Head(path).edge, active)
         IN  IF r.st = "ok"
             THEN BuildChildren(g, chart, tokens, Tail(path), Append(done, r.tree), active)
             ELSE r

RECURSIVE FindTopEdge(_, _, _, _)
FindTopEdge(g, edges, finish_pos, start_symbol) ==
    IF edges = <<>> THEN <<>>
    ELSE IF Head(edges).finish = finish_pos /\ Prod(g, Head(edges).rule).lhs = start_symbol
         THEN <<Head(edges)>>
    ELSE FindTopEdge(g, Tail(edges), finish_pos, start_symbol)

\* Chart::build_parse_tree on the edge chart; st = "no_edge" is its None.
build_parse_tree(g, chart, tokens, start_symbol) ==
    LET top == FindTopEdge(g, chart[0], LastSet(chart), start_symbol)
    IN  IF top = <<>> THEN [st |-> "no_edge", tree |-> <<>>]
        ELSE Build(g, chart, tokens, 0, top[1], {})

(***************************************************************************)
(* Output-spec interpreter.                                                *)
(***************************************************************************)
NoValue == [k |-> "None", n |-> Num(0, 0), s |-> <<>>, b |-> FALSE, typ |-> "",
            fields |-> EmptyMap]
VInteger(i) == [k |-> "Integer", n |-> Num(i, 0), s |-> <<>>, b |-> FALSE, typ |-> "",
                fields |-> EmptyMap]
VFloat(n) == [k |-> "Float", n |-> n, s |-> <<>>, b |-> FALSE, typ |-> "", fields |-> EmptyMap]
VString(s) == [k |-> "String", n |-> Num(0, 0), s |-> s, b |-> FALSE, typ |-> "",
               fields |-> EmptyMap]
VBool(b) == [k |-> "Bool", n |-> Num(0, 0), s |-> <<>>, b |-> b, typ |-> "", fields |-> EmptyMap]
VResource(typ, fields) == [k |-> "Resource", n |-> Num(0, 0), s |-> <<>>, b |-> FALSE,
                           typ |-> typ, fields |-> fields]
VDictionary(fields) == [k |-> "Dictionary", n |-> Num(0, 0), s |-> <<>>, b |-> FALSE,
                        typ |-> "", fields |-> fields]

MissingPlaceholder == <<"<missing_placeholder>">>
MissingI == <<"<missing_i>">>
MissingRelated == <<"<missing related placeholder>">>

RECURSIVE NormalizeNum(_)
NormalizeNum(n) ==
    IF n.e > 0 /\ n.m % 10 = 0 THEN NormalizeNum(Num(n.m \div 10, n.e - 1)) ELSE n

\* str::parse::<f64> of a run with at most one '.': the digits as an
\* integer and the number of digits after the '.'.
ParseF64(raw) ==
    LET dots == {i \in 1..Len(raw) : raw[i] = "."}
        dot  == IF dots = {} THEN Len(raw) + 1 ELSE CHOOSE i \in dots : TRUE
        ds   == SubSeq(raw, 1, dot - 1) \o SubSeq(raw, dot + 1, Len(raw))
        frac == IF dots = {} THEN 0 ELSE Len(raw) - dot
    IN  NormalizeNum(Num(DigitsValue(ds, 0), frac))

\* A Token arm that always takes the unwrap_or side.
TokenValueAsText(tok) == VString(tok.text)

\* Token::get_value, and the unwrap_or of compute_value's Token arm.
TokenValue(tok) ==
    CASE tok.kind = "Int" -> VInteger(DigitsValue(tok.text, 0))
      [] tok.kind = "Float" -> VFloat(ParseF64(tok.text))
      [] tok.kind = "StringLit" -> VString(tok.text)
      [] tok.kind = "Char" -> VString(tok.text)

\* The literal arms of the match on a ValueSpec.
LiteralValue(v) ==
    CASE v.k = "IntegerLiteral" -> VInteger(v.n.m)
      [] v.k = "FloatLiteral" -> VFloat(v.n)
      [] v.k = "StringLiteral" -> VString(v.s)
      [] v.k = "BoolLiteral" -> VBool(v.b)

\* Index of the first placeholder named name in rhs[i..], or 0.
RECURSIVE PlaceholderIndex(_, _, _)
PlaceholderIndex(rhs, name, i) ==
    IF i > Len(rhs) THEN 0
    ELSE IF rhs[i].k = "P" /\ rhs[i].name = name THEN i
    ELSE PlaceholderIndex(rhs, name, i + 1)

\* A merge that adds none of the fields.
MergeNothing(acc, f, keys) == acc

RECURSIVE MergeFields(_, _, _)
MergeFields(acc, f, keys) ==
    IF keys = {} THEN acc
    ELSE LET key == CHOOSE x \in keys : TRUE
         IN  MergeFields(MapInsert(acc, key, f[key]), f, keys \ {key})

RECURSIVE compute_value(_, _)
RECURSIVE find_placeholder(_, _, _)
RECURSIVE FindInChildren(_, _, _)
RECURSIVE ResourceFields(_, _, _, _, _)
RECURSIVE DictFields(_, _, _, _, _)
RECURSIVE StaticFields(_, _, _, _, _, _)

\* ParseTree::find_placeholder: [some, v].
find_placeholder(g, tree, name) ==
    IF tree.kind = "Node"
    THEN LET i == PlaceholderIndex(Prod(g, tree.rule).rhs, name, 1)
         IN  IF i = 0 \/ i > Len(tree.children) THEN [some |-> FALSE, v |-> NoValue]
             ELSE [some |-> TRUE, v |-> compute_value(g, tree.children[i])]
    ELSE [some |-> FALSE, v |-> NoValue]

\* children.iter().find_map(|c| c.find_placeholder(name))
FindInChildren(g, children, name) ==
    IF children = <<>> THEN [some |-> FALSE, v |-> NoValue]
    ELSE LET r == find_placeholder(g, Head(children), name)
         IN  IF r.some THEN r ELSE FindInChildren(g, Tail(children), name)

\* A loop over rule.rhs that takes fields from the placeholders only.
RECURSIVE ResourceFieldsOfPlaceholders(_, _, _, _, _)
ResourceFieldsOfPlaceholders(g, rhs, children, i, acc) ==
    IF i > Len(rhs) THEN acc
    ELSE IF rhs[i].k = "P"
         THEN ResourceFieldsOfPlaceholders(g, rhs, children, i + 1,
                  MapInsert(acc, rhs[i].name, compute_value(g, children[i])))
         ELSE ResourceFieldsOfPlaceholders(g, rhs, children, i + 1, acc)

\* The loop over rule.rhs of the Resource arm.
ResourceFields(g, rhs, children, i, acc) ==
    IF i > Len(rhs) THEN acc
    ELSE LET sym == rhs[i] IN
         CASE sym.k = "P" ->
                ResourceFields(g, rhs, children, i + 1,
                               MapInsert(acc, sym.name, compute_value(g, children[i])))
           [] sym.k = "N" ->
                LET child_val == compute_value(g, children[i]) IN
                IF child_val.k = "Resource" /\ child_val.typ = "__Propagate__"
                THEN ResourceFields(g, rhs, children, i + 1,
                                    MergeFields(acc, child_val.fields, DOMAIN child_val.fields))
                ELSE ResourceFields(g, rhs, children, i + 1,
                                    MapInsert(acc, sym.name, child_val))
           [] OTHER -> ResourceFields(g, rhs, children, i + 1, acc)

\* The loop over rule.rhs of the Dict arm.
DictFields(g, rhs, children, i, acc) ==
    IF i > Len(rhs) THEN acc
    ELSE LET sym == rhs[i] IN
         CASE sym.k = "P" ->
                DictFields(g, rhs, children, i + 1,
                           MapInsert(acc, sym.name, compute_value(g, children[i])))
           [] sym.k = "N" ->
                DictFields(g, rhs, children, i + 1,
                           MapInsert(acc, sym.name, compute_value(g, children[i])))
           [] OTHER -> DictFields(g, rhs, children, i + 1, acc)

\* An identifier arm that looks in the children for both output kinds.
ResolveIdentifierInChildren(g, tree, kind, name) ==
    LET r == FindInChildren(g, tree.children, name)
    IN  IF r.some THEN r.v
        ELSE VString(IF kind = "Resource" THEN MissingI ELSE MissingRelated)

\* The identifier arm of a static field: the Resource arm looks in the
\* children, the Dict arm in the node itself.
ResolveIdentifier(g, tree, kind, name) ==
    IF kind = "Resource"
    THEN LET r == FindInChildren(g, tree.children, name)
         IN  IF r.some THEN r.v ELSE VString(MissingI)
    ELSE LET r == find_placeholder(g, tree, name)
         IN  IF r.some THEN r.v ELSE VString(MissingRelated)

\* Static fields that leave a key alone when the children have set it.
StaticFieldsKeepExisting(g, tree, kind, fields, keys, acc) ==
    [key \in DOMAIN acc \cup keys |->
        IF key \in DOMAIN acc THEN acc[key]
        ELSE IF fields[key].k = "Identifier"
             THEN ResolveIdentifier(g, tree, kind, fields[key].id)
             ELSE LiteralValue(fields[key])]

\* for (k, v) in fields: the keys are distinct, so the inserts commute.
StaticFields(g, tree, kind, fields, keys, acc) ==
    IF keys = {} THEN acc
    ELSE LET key == CHOOSE x \in keys : TRUE
             v   == fields[key]
             val == IF v.k = "Identifier" THEN ResolveIdentifier(g, tree, kind, v.id)
                    ELSE LiteralValue(v)
         IN  StaticFields(g, tree, kind, fields, keys \ {key}, MapInsert(acc, key, val))

\* ParseTree::compute_value
compute_value(g, tree) ==
    IF tree.kind = "Token" THEN TokenValue(tree.tok)
    ELSE LET rule == Prod(g, tree.rule)
             out  == rule.out
         IN  CASE out.kind = "Value" ->
                    IF out.val.k = "Identifier"
                    THEN LET r == FindInChildren(g, tree.children, out.val.id)
                         IN  IF r.some THEN r.v ELSE VString(MissingPlaceholder)
                    ELSE LiteralValue(out.val)
               [] out.kind = "Resource" ->
                    VResource(out.typ,
                              StaticFields(g, tree, "Resource", out.fields, DOMAIN out.fields,
                                  ResourceFields(g, rule.rhs, tree.children, 1, EmptyMap)))
               [] out.kind = "Transparent" -> compute_value(g, tree.children[1])
               [] out.kind = "Dict" ->
                    VDictionary(StaticFields(g, tree, "Dict", out.fields, DOMAIN out.fields,
                                    DictFields(g, rule.rhs, tree.children, 1, EmptyMap)))

\* impl From<parser::Value> for Value: strings and keys become owned.
RECURSIVE ValueInto(_)
ValueInto(v) ==
    CASE v.k = "Integer" -> VInteger(v.n.m)
      [] v.k = "Float" -> VFloat(v.n)
      [] v.k = "String" -> VString(v.s)
      [] v.k = "Bool" -> VBool(v.b)
      [] v.k = "Resource" ->
            VResource(v.typ, [key \in DOMAIN v.fields |-> ValueInto(v.fields[key])])
      [] v.k = "Dictionary" ->
            VDictionary([key \in DOMAIN v.fields |-> ValueInto(v.fields[key])])

(***************************************************************************)
(* Error reporter.                                                         *)
(***************************************************************************)
\* The byte that orders a character in String's Ord.
CharCode(c) ==
    CASE c = " " -> 32 [] c = "\"" -> 34 [] c = "(" -> 40 [] c = ")" -> 41
      [] c = "*" -> 42 [] c = "+" -> 43 [] c = "," -> 44 [] c = "-" -> 45
      [] c = "." -> 46 [] c = ":" -> 58
      [] c \in Digits -> 48 + DigitVal(c)
      [] c = "a" -> 97 [] c = "b" -> 98 [] c = "c" -> 99 [] c = "d" -> 100
      [] c = "e" -> 101 [] c = "f" -> 102 [] c = "g" -> 103
      [] c = "h" -> 104 [] c = "s" -> 115 [] c = "t" -> 116 [] c = "x" -> 120
      [] c = "y" -> 121
      [] c = "U+E9" -> 195

RECURSIVE TextLess(_, _)
TextLess(a, b) ==
    IF b = <<>> THEN FALSE
    ELSE IF a = <<>> THEN TRUE
    ELSE IF CharCode(Head(a)) # CharCode(Head(b)) THEN CharCode(Head(a)) < CharCode(Head(b))
    ELSE TextLess(Tail(a), Tail(b))

RECURSIVE InsertText(_, _)
InsertText(sorted, t) ==
    IF sorted = <<>> THEN <<t>>
    ELSE IF TextLess(t, Head(sorted)) THEN <<t>> \o sorted
    ELSE <<Head(sorted)>> \o InsertText(Tail(sorted), t)

\* Vec::sort
RECURSIVE SortTexts(_)
SortTexts(ts) ==
    IF ts = <<>> THEN <<>>
    ELSE InsertText(SortTexts(SubSeq(ts, 1, Len(ts) - 1)), ts[Len(ts)])

\* Vec::dedup: consecutive equal elements are dropped.
RECURSIVE Dedup(_)
Dedup(ts) ==
    IF Len(ts) < 2 THEN ts
    ELSE IF ts[1] = ts[2] THEN Dedup(Tail(ts))
    ELSE <<ts[1]>> \o Dedup(Tail(ts))

\* One round of the while loop of compute_first_sets: the updates are
\* computed from the sets of the round before.
FirstRound(g, first) ==
    [name \in DOMAIN first |->
        first[name] \cup
        UNION {LET sym == g[i].rhs[1] IN
               CASE sym.k = "T" -> {sym}
                 [] sym.k = "N" -> IF sym.name \in DOMAIN first THEN first[sym.name] ELSE {}
                 [] sym.k = "P" -> IF sym.typ \in DOMAIN first THEN first[sym.typ] ELSE {}
               : i \in {j \in 1..Len(g) : g[j].lhs = name /\ g[j].rhs # <<>>}}]

RECURSIVE FirstLoop(_, _)
FirstLoop(g, first) ==
    LET next == FirstRound(g, first)
    IN  IF next = first THEN first ELSE FirstLoop(g, next)

\* Grammar::compute_first_sets
compute_first_sets(g) == FirstLoop(g, [name \in SymbolNames(g) |-> {}])

\* Display of a Symbol, as a list of pieces.
SymbolText(sym) ==
    CASE sym.k = "T" -> sym.lit
      [] sym.k = "P" -> <<"<", sym.name, ":", sym.typ, ">">>
      [] sym.k = "N" -> <<sym.name>>

RECURSIVE SetToSeq(_)
SetToSeq(S) ==
    IF S = {} THEN <<>>
    ELSE LET x == CHOOSE y \in S : TRUE IN <<x>> \o SetToSeq(S \ {x})

\* fn expected_tokens
expected_tokens(sym, first_sets) ==
    CASE sym.k = "T" -> <<sym.lit>>
      [] sym.k = "N" ->
            IF sym.name \in DOMAIN first_sets
            THEN LET l == SetToSeq(first_sets[sym.name])
                 IN  [i \in 1..Len(l) |-> SymbolText(l[i])]
            ELSE <<>>
      [] sym.k = "P" -> <<>>

\* fn format_item
RECURSIVE FormatParts(_, _, _)
FormatParts(rhs, dot, i) ==
    IF i > Len(rhs) THEN (IF dot = Len(rhs) THEN <<"*dot*">> ELSE <<>>)
    ELSE (IF i - 1 = dot THEN <<"*dot*">> ELSE <<>>)
         \o SymbolText(rhs[i]) \o FormatParts(rhs, dot, i + 1)

format_item(lhs, rhs, dot) == <<lhs, " -> ">> \o FormatParts(rhs, dot, 1)

InProgress(g, set) == {k \in DOMAIN set : k.dot < RhsLen(g, k.prod_id)}

\* A first loop that keeps the last index whose set has any item.
FurthestNonEmpty(g, sets) ==
    LET full == {i \in DOMAIN sets : DOMAIN sets[i] # {}}
    IN  IF full = {} THEN 0 ELSE CHOOSE i \in full : \A j \in full : j <= i

\* The first loop of try_accept: the last set index with an in-progress item.
FurthestPos(g, sets) ==
    LET live == {i \in DOMAIN sets : InProgress(g, sets[i]) # {}}
    IN  IF live = {} THEN 0 ELSE CHOOSE i \in live : \A j \in live : j <= i

RECURSIVE CollectExpected(_, _, _)
CollectExpected(g, order, first_sets) ==
    IF order = <<>> THEN <<>>
    ELSE expected_tokens(SymAt(g, Head(order).prod_id, Head(order).dot), first_sets)
         \o CollectExpected(g, Tail(order), first_sets)

\* The ParseError of try_accept; order is the hash order of the in-progress
\* items of sets[furthest_pos].
ParseErrorOf(g, tokens, sets, order) ==
    LET furthest_pos == FurthestPos(g, sets)
        first_sets   == compute_first_sets(g)
    IN  [pos      |-> furthest_pos,
         eof      |-> furthest_pos >= Len(tokens),
         found    |-> IF furthest_pos < Len(tokens) THEN Tok(tokens, furthest_pos).text
                      ELSE <<>>,
         expected |-> Dedup(SortTexts(CollectExpected(g, order, first_sets))),
         items    |-> [i \in 1..Len(order) |->
                         format_item(Prod(g, order[i].prod_id).lhs,
                                     Prod(g, order[i].prod_id).rhs, order[i].dot)]]

(***************************************************************************)
(* The engines and inputs of the model.                                    *)
(***************************************************************************)
\* Expr: "{n:Int}" -> Num ; Expr: Expr "+" Expr -> Add   (left-recursive and
\* ambiguous; NonTerminal symbols in a pattern: a Grammar built in code)
ExprRules ==
    <<Rule("Expr", Normal(<<Placeholder("n", "Int")>>), RhsType("Num")),
      Rule("Expr", Normal(<<NonTerminal("Expr"), Terminal(<<"+">>), NonTerminal("Expr")>>),
           RhsType("Add"))>>

\* S: "{x:X}b{y:X}" -> S ; X: "" -> X ; X: "a" -> X   (nullable placeholder types)
NullableRules ==
    <<Rule("S", Normal(<<Placeholder("x", "X"), Terminal(<<"b">>), Placeholder("y", "X")>>),
           RhsType("S")),
      Rule("X", Normal(<<>>), RhsType("X")),
      Rule("X", Normal(<<Terminal(<<"a">>)>>), RhsType("X"))>>

\* E: E | N ; N: "{n:Int}" -> Num   (a unit production of E on itself)
UnitRules ==
    <<Rule("E", Disjunction(<<NonTerminal("E"), NonTerminal("N")>>), RhsTransparent),
      Rule("N", Normal(<<Placeholder("n", "Int")>>), RhsType("Num"))>>

\* S: "{a:A}" ; A: "{s:S}" ; A: ""   (a nullable cycle S -> A -> S)
CycleRules ==
    <<Rule("S", Normal(<<Placeholder("a", "A")>>), RhsNone),
      Rule("A", Normal(<<Placeholder("s", "S")>>), RhsNone),
      Rule("A", Normal(<<>>), RhsNone)>>

\* ItemEffect: "h{amount:Int}" -> Heal
\* ItemEffect: "t{target:Target}:{effect:ItemEffect}" -> TargetedEffect
\* Target: "s" -> Target { kind: "self" }
EffectRules ==
    <<Rule("ItemEffect", Normal(<<Terminal(<<"h">>), Placeholder("amount", "Int")>>),
           RhsType("Heal")),
      Rule("ItemEffect",
           Normal(<<Terminal(<<"t">>), Placeholder("target", "Target"), Terminal(<<":">>),
                    Placeholder("effect", "ItemEffect")>>),
           RhsType("TargetedEffect")),
      Rule("Target", Normal(<<Terminal(<<"s">>)>>),
           RhsTypeWithFields("Target", <<<<"kind", StringLiteral(<<"s", "e", "l", "f">>)>>>>))>>

\* R: "{a:Int}" -> T { v: a, a: 9 } ; R: "w{i:W}" -> U { x: a } ; W: "{a:Int}" -> W
\* D: "{a:Int},{a:Int}" -> { v: a, a: "s" }
StaticRules ==
    <<Rule("R", Normal(<<Placeholder("a", "Int")>>),
           RhsTypeWithFields("T", <<<<"v", Identifier("a")>>, <<"a", IntegerLiteral(9)>>>>)),
      Rule("R", Normal(<<Terminal(<<"w">>), Placeholder("i", "W")>>),
           RhsTypeWithFields("U", <<<<"x", Identifier("a")>>>>)),
      Rule("W", Normal(<<Placeholder("a", "Int")>>), RhsType("W")),
      Rule("D", Normal(<<Placeholder("a", "Int"), Terminal(<<",">>), Placeholder("a", "Int")>>),
           RhsDictionary(<<<<"v", Identifier("a")>>, <<"a", StringLiteral(<<"s">>)>>>>))>>

\* P: B "x" C -> Q { C: 5 } ; B: "{v:Int}" -> __Propagate__ ; C: "{v:Int}" -> C
\* (NonTerminal children of a Resource production: a Grammar built in code)
PropagateRules ==
    <<Rule("P", Normal(<<NonTerminal("B"), Terminal(<<"x">>), NonTerminal("C")>>),
           RhsTypeWithFields("Q", <<<<"C", IntegerLiteral(5)>>>>)),
      Rule("P", Normal(<<NonTerminal("C"), NonTerminal("B")>>), RhsType("Q")),
      Rule("B", Normal(<<Placeholder("v", "Int")>>), RhsType("__Propagate__")),
      Rule("C", Normal(<<Terminal(<<"x">>), Placeholder("v", "Int")>>), RhsType("C"))>>

\* D: B "x" -> {} ; B: "{v:Int}" -> __Propagate__
DictPropagateRules ==
    <<Rule("D", Normal(<<NonTerminal("B"), Terminal(<<"x">>)>>), RhsDictionary(<<>>)),
      Rule("B", Normal(<<Placeholder("v", "Int")>>), RhsType("__Propagate__"))>>

\* Productions with OutSpec::Value:
\* V: [n:Int] = Identifier(n) ; V: ["x"] = IntegerLiteral(5) ;
\* W: [a:V] = Identifier(n) ; W: ["x" b:Int] = StringLiteral("s")
ValueRules ==
    <<Rule("V", Normal(<<Placeholder("n", "Int")>>), RhsValue(Identifier("n"))),
      Rule("V", Normal(<<Terminal(<<"x">>)>>), RhsValue(IntegerLiteral(5))),
      Rule("W", Normal(<<Placeholder("a", "V")>>), RhsValue(Identifier("n"))),
      Rule("W", Normal(<<Terminal(<<"x">>), Placeholder("b", "Int")>>),
           RhsValue(StringLiteral(<<"s">>)))>>

\* S: "{n:Int}1" -> S ; Int: "" -> I   (a builtin type name that is also a
\* nullable nonterminal)
BuiltinNullableRules ==
    <<Rule("S", Normal(<<Placeholder("n", "Int"), Terminal(<<"1">>)>>), RhsType("S")),
      Rule("Int", Normal(<<>>), RhsType("I"))>>

\* L: "12" -> L ; M: "a1" -> M   (patterns of literal text with digits)
LiteralRules ==
    <<Rule("L", Normal(<<Terminal(<<"1", "2">>)>>), RhsType("L")),
      Rule("M", Normal(<<Terminal(<<"a", "1">>)>>), RhsType("M"))>>

\* S: "{n:Int}" ; Int: "1x"   (a nonterminal named like a builtin type)
BuiltinNameRules ==
    <<Rule("S", Normal(<<Placeholder("n", "Int")>>), RhsType("S")),
      Rule("Int", Normal(<<Terminal(<<"1", "x">>)>>), RhsType("I"))>>

\* Effect: "g{amount:Int}" -> { kind: "gain_gold" }
\* Effect: "s{status:String}" -> { kind: "status", value: status }
DictRules ==
    <<Rule("Effect", Normal(<<Terminal(<<"g">>), Placeholder("amount", "Int")>>),
           RhsDictionary(<<<<"kind", StringLiteral(<<"gain_gold">>)>>>>)),
      Rule("Effect", Normal(<<Terminal(<<"s">>), Placeholder("status", "String")>>),
           RhsDictionary(<<<<"kind", StringLiteral(<<"status">>)>>,
                           <<"value", Identifier("status")>>>>))>>

\* Effect: DamageEffect | HealEffect
\* DamageEffect: "d{amount:Int}" -> Damage ; HealEffect: "h{amount:Int}" -> Heal
DisjunctionRules ==
    <<Rule("Effect", Disjunction(<<NonTerminal("DamageEffect"), NonTerminal("HealEffect")>>),
           RhsTransparent),
      Rule("DamageEffect", Normal(<<Terminal(<<"d">>), Placeholder("amount", "Int")>>),
           RhsType("Damage")),
      Rule("HealEffect", Normal(<<Terminal(<<"h">>), Placeholder("amount", "Int")>>),
           RhsType("Heal"))>>

\* V: "{i:Int}" -> I ; V: "{f:Float}" -> F ; V: "{s:Str}" -> S
ScalarRules ==
    <<Rule("V", Normal(<<Placeholder("i", "Int")>>), RhsType("I")),
      Rule("V", Normal(<<Placeholder("f", "Float")>>), RhsType("F")),
      Rule("V", Normal(<<Placeholder("s", "Str")>>), RhsType("S"))>>

\* S: N ; N: "{a:A}{n:Int}" ; A: "" ; Int: "1x"
\* (a nullable leading placeholder before a placeholder whose type names both
\* a builtin type and a nonterminal)
FirstRules ==
    <<Rule("S", Disjunction(<<NonTerminal("N")>>), RhsTransparent),
      Rule("N", Normal(<<Placeholder("a", "A"), Placeholder("n", "Int")>>), RhsType("N")),
      Rule("A", Normal(<<>>), RhsType("A")),
      Rule("Int", Normal(<<Terminal(<<"1", "x">>)>>), RhsType("I"))>>

\* The rules the generated grammars are made of, over the nonterminals S and A
\* and the terminal a.
RulePool ==
    {Rule("S", Normal(<<>>), RhsNone),
     Rule("S", Normal(<<Terminal(<<"a">>)>>), RhsNone),
     Rule("S", Normal(<<Placeholder("x", "A")>>), RhsNone),
     Rule("S", Normal(<<Placeholder("x", "S"), Terminal(<<"a">>)>>), RhsNone),
     Rule("S", Normal(<<Placeholder("x", "A"), Placeholder("y", "A")>>), RhsNone),
     Rule("S", Disjunction(<<NonTerminal("S"), NonTerminal("A")>>), RhsTransparent),
     Rule("A", Normal(<<>>), RhsNone),
     Rule("A", Normal(<<Terminal(<<"a">>)>>), RhsNone),
     Rule("A", Normal(<<Placeholder("x", "S")>>), RhsNone),
     Rule("A", Normal(<<Placeholder("x", "A")>>), RhsNone),
     Rule("A", Normal(<<Terminal(<<"a">>), Placeholder("x", "A")>>), RhsNone)}

Scenario(rs, chars, samples) == [rules |-> rs, chars |-> chars, samples |-> samples]

Scenarios ==
    {Scenario(ExprRules, {"1", "+"}, {<<"1", "+", "1", "+", "1">>, <<"4", "2", "+">>}),
     Scenario(NullableRules, {"a", "b"}, {}),
     Scenario(UnitRules, {"1"}, {}),
     Scenario(CycleRules, {"a"}, {}),
     Scenario(EffectRules, {"h", "7"}, {<<"t", "s", ":", "h", "7">>}),
     Scenario(StaticRules, {"1", "w"}, {<<"1", ",", "1", "2">>}),
     Scenario(PropagateRules, {"1", "x"}, {<<"1", "x", "x", "2">>}),
     Scenario(BuiltinNameRules, {"1", "x"}, {}),
     Scenario(DictPropagateRules, {"1", "x"}, {}),
     Scenario(LiteralRules, {"1", "2", "a"}, {}),
     Scenario(BuiltinNullableRules, {"1", "x"}, {}),
     Scenario(ValueRules, {"1", "x"}, {}),
     Scenario(DictRules, {"g", "5"}, {<<"s", "\"", "b", "\"">>}),
     Scenario(DisjunctionRules, {"d", "h", "7"}, {}),
     Scenario(ScalarRules, {"1", "5", ".", "\""}, {}),
     Scenario(FirstRules, {"1", "a"}, {})}
    \cup {Scenario(rs, {"a"}, {}) : rs \in SeqsUpTo(RulePool, MaxRules) \ {<<>>}}

InputsOf(sc, n) == SeqsUpTo(sc.chars, n) \cup sc.samples

StartsOf(rs) == {rs[i].lhs : i \in 1..Len(rs)}

\* pattern_in_quotes: the symbols of a written pattern are placeholders and
\* terminal text; a written disjunction lists nonterminals.
FromText(rs) ==
    \A i \in 1..Len(rs) :
        /\ rs[i].rhs.kind # "Value"
        /\ \A j \in 1..Len(rs[i].pattern.symbols) :
              (rs[i].pattern.symbols[j].k = "N") <=> (rs[i].pattern.kind = "Disjunction")

(***************************************************************************)
(* A parse call: Dokearley::parse, or the same steps made on a Chart.      *)
(***************************************************************************)
NoTree == [kind |-> "None", tok |-> 0, rule |-> 0, children |-> <<>>]
NoError == [pos |-> 0, found |-> <<>>, eof |-> FALSE, expected |-> <<>>, items |-> <<>>]

NewCall(input, start) ==
    [input   |-> input,
     start   |-> start,
     pc      |-> "tokenize",
     tokens  |-> <<>>,
     sets    |-> ChartNew(<<>>),
     pos     |-> 0,
     changed |-> FALSE,
     keys    |-> {},
     tree    |-> NoTree,
     result  |-> "none",
     value   |-> NoValue,
     error   |-> NoError]

Init ==
    \E sc \in Scenarios :
        /\ rules = sc.rules
        /\ engine = "none"
        /\ grammar = <<>>
        /\ \E input \in InputsOf(sc, MaxInput), start \in StartsOf(sc.rules) :
               calls = [c \in {1} |-> NewCall(input, start)]

\* Dokearley::from_dokedef after the text is parsed: defaults, conversion,
\* nullable-loop check.
FromDokedef ==
    /\ engine = "none"
    /\ FromText(rules)
    /\ LET g == GrammarFromRules(rules_map(rules)) IN
       \E ord1 \in Orders(SymbolNames(g)), ord2 \in Orders(SymbolNames(g)) :
          IF has_infinite_loop(g, ord1, ord2)
          THEN /\ engine' = "rejected"
               /\ grammar' = <<>>
          ELSE /\ engine' = "ready"
               /\ grammar' = g
    /\ UNCHANGED <<rules, calls>>

\* A Grammar { productions } built directly and handed to Chart::new.
GrammarLiteral ==
    /\ engine = "none"
    /\ engine' = "ready"
    /\ grammar' = GrammarFromRules(rules)
    /\ UNCHANGED <<rules, calls>>

Usable == engine = "ready"

\* tokenize(input) and Chart::new
Tokenize(c) ==
    /\ Usable
    /\ calls[c].pc = "tokenize"
    /\ LET tokens == tokenize(calls[c].input) IN
       calls' = [calls EXCEPT ![c].tokens = tokens,
                              ![c].sets = ChartNew(tokens),
                              ![c].pc = "recognize"]
    /\ UNCHANGED <<rules, engine, grammar>>

\* recognize: nullable set and the start items.
RecognizeInit(c) ==
    /\ calls[c].pc = "recognize"
    /\ LET nullable == compute_nullable(grammar) IN
       calls' = [calls EXCEPT
                   ![c].sets = InitItems(grammar, calls[c].sets,
                                         prods_for(grammar, calls[c].start), nullable),
                   ![c].pos = 0,
                   ![c].changed = TRUE,
                   ![c].pc = "pass"]
    /\ UNCHANGED <<rules, engine, grammar>>

\* while changed: changed = false; keys = sets[pos].keys()
BeginPass(c) ==
    /\ calls[c].pc = "pass"
    /\ calls[c].changed
    /\ LET keys == DOMAIN calls[c].sets[calls[c].pos] IN
       calls' = [calls EXCEPT ![c].changed = FALSE,
                              ![c].keys = keys,
                              ![c].pc = IF keys = {} THEN "pass" ELSE "keys"]
    /\ UNCHANGED <<rules, engine, grammar>>

\* One iteration of `for key in keys`; the keys come in hash order.
ProcessKey(c) ==
    /\ calls[c].pc = "keys"
    /\ \E key \in calls[c].keys :
          LET r == ProcessItem(grammar, calls[c].tokens, calls[c].sets, key, calls[c].pos,
                               compute_nullable(grammar), calls[c].changed)
              rest == calls[c].keys \ {key}
          IN  calls' = [calls EXCEPT ![c].sets = r.sets,
                                     ![c].changed = r.changed,
                                     ![c].keys = rest,
                                     ![c].pc = IF rest = {} THEN "pass" ELSE "keys"]
    /\ UNCHANGED <<rules, engine, grammar>>

\* The while loop ends; the for loop goes to the next position.
NextPos(c) ==
    /\ calls[c].pc = "pass"
    /\ ~calls[c].changed
    /\ calls[c].pos < Len(calls[c].tokens)
    /\ calls' = [calls EXCEPT ![c].pos = calls[c].pos + 1, ![c].changed = TRUE]
    /\ UNCHANGED <<rules, engine, grammar>>

\* recognize returns.
RecognizeReturn(c) ==
    /\ calls[c].pc = "pass"
    /\ ~calls[c].changed
    /\ calls[c].pos = Len(calls[c].tokens)
    /\ calls' = [calls EXCEPT ![c].pc = "try_accept"]
    /\ UNCHANGED <<rules, engine, grammar>>

\* try_accept on an accepting chart.
TryAcceptOk(c) ==
    /\ calls[c].pc = "try_accept"
    /\ accepted(grammar, calls[c].tokens, calls[c].sets, calls[c].start)
    /\ calls' = [calls EXCEPT ![c].pc = "build"]
    /\ UNCHANGED <<rules, engine, grammar>>

\* A failing try_accept that takes the grammar out of the engine.
TryAcceptErrTakesGrammar(c) ==
    /\ calls[c].pc = "try_accept"
    /\ ~accepted(grammar, calls[c].tokens, calls[c].sets, calls[c].start)
    /\ calls' = [calls EXCEPT ![c].result = "ParseError", ![c].pc = "done"]
    /\ grammar' = <<>>
    /\ UNCHANGED <<rules, engine>>

\* try_accept on a chart that does not accept: the ParseError; the items of
\* the furthest set come in hash order.
TryAcceptErr(c) ==
    /\ calls[c].pc = "try_accept"
    /\ ~accepted(grammar, calls[c].tokens, calls[c].sets, calls[c].start)
    /\ \E order \in Orders(InProgress(grammar,
                              calls[c].sets[FurthestPos(grammar, calls[c].sets)])) :
          calls' = [calls EXCEPT
                      ![c].error = ParseErrorOf(grammar, calls[c].tokens, calls[c].sets, order),
                      ![c].result = "ParseError",
                      ![c].pc = "done"]
    /\ UNCHANGED <<rules, engine, grammar>>

\* build_parse_tree and the ok_or of parse.
BuildParseTree(c) ==
    /\ calls[c].pc = "build"
    /\ \E chart \in ChartsOfItems(grammar, calls[c].sets) :
          LET r == build_parse_tree(grammar, chart, calls[c].tokens, calls[c].start) IN
          calls' = [calls EXCEPT
                      ![c].tree = IF r.st = "ok" THEN r.tree ELSE NoTree,
                      ![c].result = CASE r.st = "ok" -> "none"
                                      [] r.st = "no_edge" -> "BuildParseTreeError"
                                      [] r.st = "overflow" -> "stack_overflow"
                                      [] OTHER -> r.st,
                      ![c].pc = IF r.st = "ok" THEN "value" ELSE "done"]
    /\ UNCHANGED <<rules, engine, grammar>>

\* tree.compute_value().into()
ComputeValue(c) ==
    /\ calls[c].pc = "value"
    /\ calls' = [calls EXCEPT ![c].value = ValueInto(compute_value(grammar, calls[c].tree)),
                              ![c].result = "Ok",
                              ![c].pc = "done"]
    /\ UNCHANGED <<rules, engine, grammar>>

Next ==
    \/ FromDokedef
    \/ GrammarLiteral
    \/ \E c \in DOMAIN calls : Tokenize(c)
    \/ \E c \in DOMAIN calls : RecognizeInit(c)
    \/ \E c \in DOMAIN calls : BeginPass(c)
    \/ \E c \in DOMAIN calls : ProcessKey(c)
    \/ \E c \in DOMAIN calls : NextPos(c)
    \/ \E c \in DOMAIN calls : RecognizeReturn(c)
    \/ \E c \in DOMAIN calls : TryAcceptOk(c)
    \/ \E c \in DOMAIN calls : TryAcceptErr(c)
    \/ \E c \in DOMAIN calls : BuildParseTree(c)
    \/ \E c \in DOMAIN calls : ComputeValue(c)

Spec == Init /\ [][Next]_vars

\* Chart::new on a Grammar built in code, then recognize alone, as the
\* recognizer's own tests run it; a recognition that has a step to take takes it.
InitRecognize ==
    \E sc \in Scenarios :
        /\ rules = sc.rules
        /\ engine = "ready"
        /\ grammar = GrammarFromRules(sc.rules)
        /\ \E input \in InputsOf(sc, MaxInput), start \in StartsOf(sc.rules) :
               calls = [c \in {1} |-> NewCall(input, start)]

NextRecognize ==
    \/ \E c \in DOMAIN calls : Tokenize(c)
    \/ \E c \in DOMAIN calls : RecognizeInit(c)
    \/ \E c \in DOMAIN calls : BeginPass(c)
    \/ \E c \in DOMAIN calls : ProcessKey(c)
    \/ \E c \in DOMAIN calls : NextPos(c)
    \/ \E c \in DOMAIN calls : RecognizeReturn(c)

RecognizeSpec == InitRecognize /\ [][NextRecognize]_vars /\ WF_vars(NextRecognize)

\* One engine, two parse calls whose steps interleave: each call has its own
\* tokens, chart and tree.
ReuseScenarios ==
    {Scenario(ExprRules, {"1", "+"}, {}),
     Scenario(NullableRules, {"a", "b"}, {})}

InitReuse ==
    \E sc \in ReuseScenarios :
        /\ rules = sc.rules
        /\ engine = "none"
        /\ grammar = <<>>
        /\ \E in1 \in InputsOf(sc, MaxReuseInput), in2 \in InputsOf(sc, MaxReuseInput),
              s1 \in StartsOf(sc.rules), s2 \in StartsOf(sc.rules) :
               calls = [c \in {1, 2} |-> IF c = 1 THEN NewCall(in1, s1) ELSE NewCall(in2, s2)]

ReuseSpec == InitReuse /\ [][Next]_vars

\* tokenize alone, on texts with quotes, digits, dots, a letter and a
\* two-byte character, and on digit runs around the largest i64.
TokenChars == {"1", "0", ".", "\"", "a", "U+E9"}

TokenSamples ==
    {I64MaxDigits,
     SubSeq(I64MaxDigits, 1, 18) \o <<"8">>,
     <<"a">> \o I64MaxDigits \o <<".", "a">>}

InitTokenize ==
    /\ rules = ScalarRules
    /\ engine = "ready"
    /\ grammar = GrammarFromRules(ScalarRules)
    /\ \E input \in SeqsUpTo(TokenChars, MaxTokInput) \cup TokenSamples :
           calls = [c \in {1} |-> NewCall(input, "V")]

NextTokenize == \E c \in DOMAIN calls : Tokenize(c)

TokenizeSpec == InitTokenize /\ [][NextTokenize]_vars

(***************************************************************************)
(* Properties.                                                             *)
(***************************************************************************)
BuiltinNames == {"int", "float", "string", "str"}

NoBuiltinNonterminal(g) ==
    \A i \in 1..Len(g) : to_ascii_lowercase(g[i].lhs) \notin BuiltinNames

\* The positions j such that one symbol derives the tokens from i to j, given
\* the spans D = {<<name, i, j>>} already known to be derivable.
SymbolEnds(sym, tokens, i, D) ==
    CASE sym.k = "T" ->
            IF i < Len(tokens) /\ Tok(tokens, i).text = sym.lit THEN {i + 1} ELSE {}
      [] sym.k = "N" -> {j \in i..Len(tokens) : <<sym.name, i, j>> \in D}
      [] sym.k = "P" ->
            IF to_ascii_lowercase(sym.typ) \in BuiltinNames
            THEN IF i < Len(tokens) /\ is_builtin(sym.typ, Tok(tokens, i)) THEN {i + 1} ELSE {}
            ELSE {j \in i..Len(tokens) : <<sym.typ, i, j>> \in D}

RECURSIVE RhsEnds(_, _, _, _, _)
RhsEnds(rhs, k, tokens, from, D) ==
    IF k > Len(rhs) THEN from
    ELSE RhsEnds(rhs, k + 1, tokens,
                 UNION {SymbolEnds(rhs[k], tokens, i, D) : i \in from}, D)

DeriveRound(g, tokens, D) ==
    D \cup
       {t \in {<<g[p].lhs, i, j>> : p \in 1..Len(g), i \in 0..Len(tokens), j \in 0..Len(tokens)} :
           \E p \in 1..Len(g) :
               g[p].lhs = t[1] /\ t[3] \in RhsEnds(g[p].rhs, 1, tokens, {t[2]}, D)}

RECURSIVE DeriveFix(_, _, _)
DeriveFix(g, tokens, D) ==
    LET next == DeriveRound(g, tokens, D)
    IN  IF next = D THEN D ELSE DeriveFix(g, tokens, next)

\* The tokens are derivable from start: the least set of spans closed under
\* the productions holds the whole input for start.
Derivable(g, tokens, start) == <<start, 0, Len(tokens)>> \in DeriveFix(g, tokens, {})

\* The names that derive the empty sequence: the least set closed under the
\* productions whose right-hand sides hold only names of the set.
NullableStep(g, N) ==
    N \cup {g[p].lhs : p \in {q \in 1..Len(g) :
                \A k \in 1..Len(g[q].rhs) :
                    LET sym == g[q].rhs[k] IN
                    \/ sym.k = "N" /\ sym.name \in N
                    \/ sym.k = "P" /\ sym.typ \in N}}

RECURSIVE NullableFix(_, _)
NullableFix(g, N) ==
    IF NullableStep(g, N) = N THEN N ELSE NullableFix(g, NullableStep(g, N))

NullableNames(g) == NullableFix(g, {})

\* A -> B: A has a production whose rhs is entirely nullable and mentions B
\* as a nonterminal or as a placeholder type; A and B are nullable.
NullableEdges(g) ==
    LET N == NullableNames(g) IN
    {e \in N \X N :
        \E p \in 1..Len(g) :
            /\ g[p].lhs = e[1]
            /\ \A k \in 1..Len(g[p].rhs) :
                   \/ g[p].rhs[k].k = "N" /\ g[p].rhs[k].name \in N
                   \/ g[p].rhs[k].k = "P" /\ g[p].rhs[k].typ \in N
            /\ \E k \in 1..Len(g[p].rhs) :
                   \/ g[p].rhs[k].k = "N" /\ g[p].rhs[k].name = e[2]
                   \/ g[p].rhs[k].k = "P" /\ g[p].rhs[k].typ = e[2]}

RECURSIVE TransitiveClosure(_)
TransitiveClosure(E) ==
    LET next == E \cup {<<p[1][1], p[2][2]>> : p \in {q \in E \X E : q[1][2] = q[2][1]}}
    IN  IF next = E THEN E ELSE TransitiveClosure(next)

NullableGraphHasCycle(g) ==
    \E e \in TransitiveClosure(NullableEdges(g)) : e[1] = e[2]

PassesNullableCheck(g) == ~NullableGraphHasCycle(g)

Recognized(c) == calls[c].pc \in {"try_accept", "build", "value", "done"}

\* C1: in a grammar with no nonterminal named like a builtin type, after
\* recognize(start) the chart accepts start exactly when the whole token
\* sequence is derivable from start.
C1_AcceptedIffDerivable ==
    \A c \in DOMAIN calls :
        (Recognized(c) /\ NoBuiltinNonterminal(grammar)) =>
            (accepted(grammar, calls[c].tokens, calls[c].sets, calls[c].start)
                <=> Derivable(grammar, calls[c].tokens, calls[c].start))

\* An accepted three-token input of a grammar with a nullable name, whose
\* derivation uses the empty production.
C1_Witness ==
    /\ Recognized(1)
    /\ NoBuiltinNonterminal(grammar)
    /\ compute_nullable(grammar) # {}
    /\ Len(calls[1].tokens) = 2
    /\ rules = NullableRules
    /\ calls[1].start = "S"
    /\ accepted(grammar, calls[1].tokens, calls[1].sets, calls[1].start)

\* C2: whenever the chart accepts, for a grammar that passes the
\* nullable-cycle check, parse does not fail with the internal 'could not
\* build parse tree' error and does not panic (no failed expect, no read
\* outside the token list).
C2_AcceptedGivesValue ==
    \A c \in DOMAIN calls :
        (/\ calls[c].pc = "done"
         /\ PassesNullableCheck(grammar)
         /\ accepted(grammar, calls[c].tokens, calls[c].sets, calls[c].start))
        => calls[c].result \notin {"BuildParseTreeError", "panic_index", "panic_expect"}

\* C3: for an accepting chart of a grammar that passes the nullable-cycle
\* check, the recursion of build never re-enters an edge it is building, so
\* build_parse_tree terminates.
C3_BuildTerminates ==
    \A c \in DOMAIN calls :
        (/\ calls[c].pc = "done"
         /\ PassesNullableCheck(grammar)
         /\ accepted(grammar, calls[c].tokens, calls[c].sets, calls[c].start))
        => calls[c].result # "stack_overflow"

KeyCount(sets) == Cardinality(UNION {{<<i, k>> : k \in DOMAIN sets[i]} : i \in DOMAIN sets})

\* C4: recognize terminates for every grammar and input: a step of a pass
\* that sets changed has added a new item key, no key is ever removed, and
\* every started recognition reaches its return.
C4_RecognizeTerminates ==
    /\ [][\A c \in DOMAIN calls :
            (calls[c].pc = "keys") =>
                /\ \A i \in DOMAIN calls[c].sets :
                       DOMAIN calls[c].sets[i] \subseteq DOMAIN calls'[c].sets[i]
                /\ (calls'[c].changed /\ ~calls[c].changed) =>
                       KeyCount(calls'[c].sets) > KeyCount(calls[c].sets)]_vars
    /\ (calls[1].pc = "recognize") ~> (calls[1].pc = "try_accept")

\* recognize has returned on a grammar with a nullable cycle, built without
\* the check, after the passes of two positions.
C4_Witness ==
    /\ calls[1].pc = "try_accept"
    /\ NullableGraphHasCycle(grammar)
    /\ Len(calls[1].tokens) = 1
    /\ KeyCount(calls[1].sets) > 2

\* C7: from_dokedef rejects the grammar exactly when the graph over the
\* nullable names has a directed cycle.
C7_RejectsExactlyNullableCycles ==
    [][FromDokedef =>
          ((engine' = "rejected")
              <=> NullableGraphHasCycle(GrammarFromRules(rules_map(rules))))]_vars

\* The two-name cycle S -> A -> S has been rejected.
C7_Witness ==
    /\ engine = "rejected"
    /\ rules = CycleRules
    /\ NullableGraphHasCycle(GrammarFromRules(rules_map(rules)))

\* What a parse call hands back.
Outcome(c) == [result |-> calls[c].result, value |-> calls[c].value, error |-> calls[c].error]

\* C5: two runs of parse with the same grammar, input and start symbol end
\* with equal values on success and equal error reports (pos, found, expected
\* and the in-progress items in the same order) on failure.
C5_Deterministic ==
    (/\ calls[1].pc = "done"
     /\ calls[2].pc = "done"
     /\ calls[1].input = calls[2].input
     /\ calls[1].start = calls[2].start)
    => Outcome(1) = Outcome(2)

\* A parse call run alone, as one computation: the keys of a pass are taken
\* in one fixed order.
RECURSIVE RunKeys(_, _, _, _, _, _, _)
RunKeys(g, tokens, sets, keys, pos, nullable, changed) ==
    IF keys = {} THEN [sets |-> sets, changed |-> changed]
    ELSE LET key == CHOOSE k \in keys : TRUE
             r   == ProcessItem(g, tokens, sets, key, pos, nullable, changed)
         IN  RunKeys(g, tokens, r.sets, keys \ {key}, pos, nullable, r.changed)

RECURSIVE RunPasses(_, _, _, _, _)
RunPasses(g, tokens, sets, pos, nullable) ==
    LET r == RunKeys(g, tokens, sets, DOMAIN sets[pos], pos, nullable, FALSE)
    IN  IF r.changed THEN RunPasses(g, tokens, r.sets, pos, nullable)
        ELSE IF pos < Len(tokens) THEN RunPasses(g, tokens, r.sets, pos + 1, nullable)
        ELSE r.sets

RecognizeAlone(g, tokens, start) ==
    LET nullable == compute_nullable(g)
    IN  RunPasses(g, tokens,
                  InitItems(g, ChartNew(tokens), prods_for(g, start), nullable),
                  0, nullable)

\* The outcomes of parse(input, start) run alone on grammar g.
AloneOutcomes(g, input, start) ==
    LET tokens == tokenize(input)
        sets   == RecognizeAlone(g, tokens, start)
    IN  IF accepted(g, tokens, sets, start)
        THEN {LET r == build_parse_tree(g, chart, tokens, start) IN
              CASE r.st = "ok" ->
                     [result |-> "Ok", value |-> ValueInto(compute_value(g, r.tree)),
                      error |-> NoError]
                [] r.st = "no_edge" ->
                     [result |-> "BuildParseTreeError", value |-> NoValue, error |-> NoError]
                [] r.st = "overflow" ->
                     [result |-> "stack_overflow", value |-> NoValue, error |-> NoError]
                [] OTHER -> [result |-> r.st, value |-> NoValue, error |-> NoError]
              : chart \in ChartsOfItems(g, sets)}
        ELSE {[result |-> "ParseError", value |-> NoValue,
               error |-> ParseErrorOf(g, tokens, sets, order)]
              : order \in Orders(InProgress(g, sets[FurthestPos(g, sets)]))}

\* C6: on one engine, whatever the interleaving of the steps of two parse
\* calls, the grammar stays the one the engine was built with and each call
\* ends with an outcome it can have when run alone.
C6_ReuseIsIsolated ==
    /\ (engine = "ready") => (grammar = GrammarFromRules(rules_map(rules)))
    /\ \A c \in DOMAIN calls :
          (calls[c].pc = "done") =>
              Outcome(c) \in AloneOutcomes(grammar, calls[c].input, calls[c].start)

\* Two calls on one engine have ended, one with a ParseError and the other
\* with a value, on different inputs.
C6_Witness ==
    /\ calls[1].pc = "done" /\ calls[1].result = "ParseError"
    /\ 2 \in DOMAIN calls /\ calls[2].pc = "done" /\ calls[2].result = "Ok"
    /\ calls[1].input # calls[2].input

\* The interior nodes of a derivation tree.
RECURSIVE Subtrees(_)
Subtrees(t) ==
    IF t.kind = "Node"
    THEN {t} \cup UNION {Subtrees(t.children[i]) : i \in 1..Len(t.children)}
    ELSE {}

NodesOf(c, kinds) ==
    {t \in Subtrees(calls[c].tree) : Prod(grammar, t.rule).out.kind \in kinds}

IsPropagate(v) == v.k = "Resource" /\ v.typ = "__Propagate__"

\* The field keys that rhs[i] of node t gives, and the value it gives a key.
KeysAt(t, i) ==
    LET sym == Prod(grammar, t.rule).rhs[i]
        cv  == compute_value(grammar, t.children[i])
    IN  CASE sym.k = "P" -> {sym.name}
          [] sym.k = "N" -> IF IsPropagate(cv) THEN DOMAIN cv.fields ELSE {sym.name}
          [] sym.k = "T" -> {}

ValueAt(t, i, key) ==
    LET sym == Prod(grammar, t.rule).rhs[i]
        cv  == compute_value(grammar, t.children[i])
    IN  IF sym.k = "N" /\ IsPropagate(cv) THEN cv.fields[key] ELSE cv

C9_IdentifierIsSibling ==
    \A c \in DOMAIN calls :
        \A t \in NodesOf(c, {"Resource"}) :
            LET rule == Prod(grammar, t.rule)
                v    == compute_value(grammar, t)
            IN  \A key \in DOMAIN rule.out.fields :
                    LET spec == rule.out.fields[key]
                        at   == {i \in 1..Len(rule.rhs) :
                                    rule.rhs[i].k = "P" /\ rule.rhs[i].name = spec.id}
                    IN  (spec.k = "Identifier" /\ at # {}) =>
                            \E i \in at : v.fields[key] = compute_value(grammar, t.children[i])

\* What a static field's spec resolves to in node t.
StaticValue(t, spec) ==
    IF spec.k = "Identifier"
    THEN ResolveIdentifier(grammar, t, Prod(grammar, t.rule).out.kind, spec.id)
    ELSE LiteralValue(spec)

\* C10: in the value of a node with a Resource or Dict output every static
\* field key holds the static field's value, also when a placeholder or a
\* nonterminal child of the production gives the same key.
C10_StaticFieldsWin ==
    \A c \in DOMAIN calls :
        \A t \in NodesOf(c, {"Resource", "Dict"}) :
            LET rule == Prod(grammar, t.rule)
                v    == compute_value(grammar, t)
            IN  \A key \in DOMAIN rule.out.fields :
                    /\ key \in DOMAIN v.fields
                    /\ v.fields[key] = StaticValue(t, rule.out.fields[key])

\* The keys that the children of the top node give and a static field sets.
Collisions(c) ==
    LET t    == calls[c].tree
        rule == Prod(grammar, t.rule)
    IN  {key \in DOMAIN rule.out.fields :
            \E i \in 1..Len(rule.rhs) :
                /\ key \in KeysAt(t, i)
                /\ ValueAt(t, i, key) # StaticValue(t, rule.out.fields[key])}

\* A Resource whose static key is also the name of a nonterminal child with
\* another value has been computed.
C10_Witness ==
    /\ calls[1].pc = "done"
    /\ calls[1].result = "Ok"
    /\ rules = PropagateRules
    /\ Prod(grammar, calls[1].tree.rule).out.kind = "Resource"
    /\ "C" \in Collisions(1)
    /\ calls[1].value.fields["C"] = ValueInto(VInteger(5))

\* The rhs indexes of node t whose symbol is a placeholder named name.
PlaceholdersNamed(t, name) ==
    {i \in 1..Len(Prod(grammar, t.rule).rhs) :
        /\ Prod(grammar, t.rule).rhs[i].k = "P"
        /\ Prod(grammar, t.rule).rhs[i].name = name}

\* C11: the value of a node with a dictionary output is an untyped
\* Dictionary; the name of every placeholder of the production is a key, and
\* a name that no static field and no later symbol sets again holds the value
\* of the placeholder's child; every literal static field holds its literal;
\* every static field Identifier(name) for which the production has a
\* placeholder named name holds the value of that placeholder's child (the
\* first of them).
C11_DictFields ==
    \A c \in DOMAIN calls :
        \A t \in NodesOf(c, {"Dict"}) :
            LET rule    == Prod(grammar, t.rule)
                v       == compute_value(grammar, t)
                statics == rule.out.fields
            IN  /\ v.k = "Dictionary"
                /\ v.typ = ""
                /\ \A i \in 1..Len(rule.rhs) :
                       rule.rhs[i].k = "P" =>
                          /\ rule.rhs[i].name \in DOMAIN v.fields
                          /\ (/\ rule.rhs[i].name \notin DOMAIN statics
                              /\ \A j \in (i + 1)..Len(rule.rhs) :
                                     rule.rhs[j].name # rule.rhs[i].name)
                              => v.fields[rule.rhs[i].name]
                                     = compute_value(grammar, t.children[i])
                /\ \A key \in DOMAIN statics :
                       /\ key \in DOMAIN v.fields
                       /\ statics[key].k = "StringLiteral"
                              => v.fields[key] = VString(statics[key].s)
                       /\ statics[key].k = "IntegerLiteral"
                              => v.fields[key] = VInteger(statics[key].n.m)
                       /\ statics[key].k = "FloatLiteral"
                              => v.fields[key] = VFloat(statics[key].n)
                       /\ statics[key].k = "BoolLiteral"
                              => v.fields[key] = VBool(statics[key].b)
                       /\ (/\ statics[key].k = "Identifier"
                           /\ PlaceholdersNamed(t, statics[key].id) # {})
                              => \E i \in PlaceholdersNamed(t, statics[key].id) :
                                    /\ \A j \in PlaceholdersNamed(t, statics[key].id) : i <= j
                                    /\ v.fields[key] = compute_value(grammar, t.children[i])

\* 's"b"' has given the dictionary with kind, value and status.
C11_Witness ==
    /\ calls[1].pc = "done"
    /\ calls[1].result = "Ok"
    /\ rules = DictRules
    /\ calls[1].input = <<"s", "\"", "b", "\"">>
    /\ calls[1].value.k = "Dictionary"
    /\ DOMAIN calls[1].value.fields = {"kind", "value", "status"}
    /\ calls[1].value.fields["kind"] = VString(<<"status">>)
    /\ calls[1].value.fields["value"] = VString(<<"b">>)
    /\ calls[1].value.fields["status"] = VString(<<"b">>)

\* The id of the first production that rule i of rs gives.
RECURSIVE ProdStart(_, _)
ProdStart(rs, i) ==
    IF i = 1 THEN 0
    ELSE ProdStart(rs, i - 1)
         + (IF rs[i - 1].pattern.kind = "Normal" THEN 1 ELSE Len(rs[i - 1].pattern.symbols))

\* C12: a node whose production comes from a rule written without an output
\* evaluates to a Resource whose type is the rule's lhs, and the production's
\* output has no static fields.
C12_DefaultOutputIsType ==
    \A c \in DOMAIN calls :
        \A t \in Subtrees(calls[c].tree) :
            \A i \in 1..Len(rules) :
                (/\ rules[i].rhs.kind = "None"
                 /\ rules[i].pattern.kind = "Normal"
                 /\ t.rule = ProdStart(rules, i))
                => /\ compute_value(grammar, t).k = "Resource"
                   /\ compute_value(grammar, t).typ = rules[i].lhs
                   /\ Prod(grammar, t.rule).out.fields = EmptyMap

\* C13: in an engine's grammar every production with a Transparent output
\* has exactly one rhs symbol; a disjunction gives one such production per
\* alternative, in the order written; and a node of such a production has one
\* child and evaluates to that child's value.
C13_TransparentHasOneSymbol ==
    engine = "ready" =>
        /\ \A p \in ProdIds(grammar) :
               Prod(grammar, p).out.kind = "Transparent" => RhsLen(grammar, p) = 1
        /\ \A i \in 1..Len(rules) :
               rules[i].pattern.kind = "Disjunction" =>
                  \A k \in 1..Len(rules[i].pattern.symbols) :
                     LET pid == ProdStart(rules, i) + k - 1 IN
                     /\ pid \in ProdIds(grammar)
                     /\ Prod(grammar, pid).lhs = rules[i].lhs
                     /\ Prod(grammar, pid).rhs = <<rules[i].pattern.symbols[k]>>
                     /\ Prod(grammar, pid).out.kind = "Transparent"
        /\ \A c \in DOMAIN calls :
               \A t \in NodesOf(c, {"Transparent"}) :
                  /\ Len(t.children) = 1
                  /\ compute_value(grammar, t) = compute_value(grammar, t.children[1])

\* 'h7' parsed from Effect: the top node is the second alternative's
\* production and the value is the Heal resource of its child.
C13_Witness ==
    /\ calls[1].pc = "done"
    /\ calls[1].result = "Ok"
    /\ rules = DisjunctionRules
    /\ calls[1].start = "Effect"
    /\ calls[1].tree.rule = 1
    /\ Prod(grammar, 1).out.kind = "Transparent"
    /\ calls[1].value = VResource("Heal", [k \in {"amount"} |-> VInteger(7)])

\* The characters of input whose bytes lie in [s, e).
InputSlice(input, s, e) ==
    LET idx == {i \in 1..Len(input) :
                  /\ ByteLen(SubSeq(input, 1, i - 1)) >= s
                  /\ ByteLen(SubSeq(input, 1, i)) <= e}
    IN  IF idx = {} THEN <<>>
        ELSE SubSeq(input, CHOOSE i \in idx : \A j \in idx : i <= j,
                           CHOOSE i \in idx : \A j \in idx : j <= i)

RECURSIVE Pow10(_)
Pow10(n) == IF n = 0 THEN 1 ELSE 10 * Pow10(n - 1)

\* The number a string of decimal digits denotes.
RECURSIVE DecimalOf(_)
DecimalOf(ds) ==
    IF ds = <<>> THEN 0
    ELSE DigitVal(Head(ds)) * Pow10(Len(ds) - 1) + DecimalOf(Tail(ds))

WithoutDots(raw) == SelectSeq(raw, LAMBDA ch : ch # ".")

\* The number of digits after the '.' of a float literal.
FracDigits(raw) ==
    IF \A i \in 1..Len(raw) : raw[i] # "." THEN 0
    ELSE Len(raw) - (CHOOSE i \in 1..Len(raw) : raw[i] = ".")

\* The text between the quotes of a string literal; the closing quote may be
\* missing at the end of the input.
InsideQuotes(raw) ==
    IF Len(raw) >= 2 /\ raw[Len(raw)] = "\"" THEN SubSeq(raw, 2, Len(raw) - 1) ELSE Tail(raw)

\* C14: a placeholder of builtin type int matched by the integer literal I
\* of the input yields Integer(the number I denotes); of type float matched
\* by a float literal, Float of the number it denotes; of type string or str
\* matched by a string literal, String of the text inside the quotes; and the
\* field of the placeholder's name holds that value when no static field and
\* no later symbol of the production sets the same key.
C14_ScalarsRoundTrip ==
    \A c \in DOMAIN calls :
        \A t \in NodesOf(c, {"Resource", "Dict"}) :
            \A i \in 1..Len(t.children) :
                LET rule == Prod(grammar, t.rule)
                    sym  == rule.rhs[i]
                    ch   == t.children[i]
                    typ  == to_ascii_lowercase(sym.typ)
                    raw  == InputSlice(calls[c].input, ch.tok.span.start, ch.tok.span.end)
                    v    == compute_value(grammar, ch)
                IN  (sym.k = "P" /\ ch.kind = "Token") =>
                       /\ typ \in BuiltinNames
                       /\ typ = "int" =>
                              /\ v.k = "Integer"
                              /\ v.n = Num(DecimalOf(raw), 0)
                       /\ typ = "float" =>
                              /\ v.k = "Float"
                              /\ v.n.m * Pow10(FracDigits(raw))
                                    = DecimalOf(WithoutDots(raw)) * Pow10(v.n.e)
                       /\ typ \in {"string", "str"} =>
                              /\ v.k = "String"
                              /\ v.s = InsideQuotes(raw)
                       /\ (/\ sym.name \notin DOMAIN rule.out.fields
                           /\ \A j \in (i + 1)..Len(rule.rhs) : rule.rhs[j].name # sym.name)
                          => /\ sym.name \in DOMAIN compute_value(grammar, t).fields
                             /\ compute_value(grammar, t).fields[sym.name] = v

\* '1.5' matched by the float placeholder has given F { f: Float(1.5) }.
C14_Witness ==
    /\ calls[1].pc = "done"
    /\ calls[1].result = "Ok"
    /\ rules = ScalarRules
    /\ calls[1].input = <<"1", ".", "5">>
    /\ calls[1].value = VResource("F", [k \in {"f"} |-> VFloat(Num(15, 1))])

\* The set indexes of call c's chart that hold an item with dot < |rhs|.
LiveSets(c) ==
    {i \in DOMAIN calls[c].sets :
        \E k \in DOMAIN calls[c].sets[i] : k.dot < Len(Prod(grammar, k.prod_id).rhs)}

\* C15: a call that ended with a ParseError had a chart that is not accepted;
\* the error's pos is the largest index of a set with an in-progress item
\* (when there is one); found is the text of tokens[pos] when pos is less
\* than the number of tokens and None otherwise; and a call that went on to
\* build a tree had an accepted chart.
C15_FurthestPosition ==
    \A c \in DOMAIN calls :
        LET call == calls[c]
            n    == Len(call.tokens)
        IN  /\ call.result = "ParseError" =>
                  /\ ~accepted(grammar, call.tokens, call.sets, call.start)
                  /\ LiveSets(c) # {} =>
                         /\ call.error.pos \in LiveSets(c)
                         /\ \A j \in LiveSets(c) : j <= call.error.pos
                  /\ call.error.pos < n =>
                         /\ ~call.error.eof
                         /\ call.error.found = call.tokens[call.error.pos + 1].text
                  /\ call.error.pos >= n => call.error.eof
            /\ (call.pc \in {"build", "value"} \/ (call.pc = "done" /\ call.result # "ParseError"))
                  => accepted(grammar, call.tokens, call.sets, call.start)

\* '1++' on the Expr grammar has failed at the second '+': the last set with
\* an in-progress item is set 2, after which nothing was scanned.
C15_Witness ==
    /\ calls[1].pc = "done"
    /\ calls[1].result = "ParseError"
    /\ rules = ExprRules
    /\ calls[1].input = <<"1", "+", "+">>
    /\ LiveSets(1) = {0, 1, 2}
    /\ calls[1].error.pos = 2
    /\ calls[1].error.found = <<"+">>

\* The call has parsed '42+' from Expr on the Expr grammar and has ended.
ParsedIncompleteAddition(c) ==
    /\ rules = ExprRules
    /\ calls[c].input = <<"4", "2", "+">>
    /\ calls[c].start = "Expr"
    /\ calls[c].pc = "done"

\* C16 as stated: parsing '42+' on the Expr grammar fails with a ParseError
\* whose pos is 3 and whose found is None.
C16_PosIsThree ==
    \A c \in DOMAIN calls :
        ParsedIncompleteAddition(c) =>
            /\ calls[c].result = "ParseError"
            /\ calls[c].error.pos = 3
            /\ calls[c].error.eof

\* C16 amended: parsing '42+' on the Expr grammar fails with a ParseError
\* whose pos is 2, the number of tokens ('42' is one Int token), and whose
\* found is None.
C16_PosIsTokenCount ==
    \A c \in DOMAIN calls :
        ParsedIncompleteAddition(c) =>
            /\ calls[c].result = "ParseError"
            /\ Len(calls[c].tokens) = 2
            /\ calls[c].error.pos = 2
            /\ calls[c].error.eof
            /\ calls[c].error.found = <<>>

C16_Witness ==
    /\ ParsedIncompleteAddition(1)
    /\ calls[1].result = "ParseError"
    /\ calls[1].tokens[1].kind = "Int"
    /\ calls[1].error.eof

\* One round of FIRST: the terminals that can begin a derivation of each
\* name, through nonterminals, placeholder types and nullable leading symbols.
FirstStep(g, F) ==
    [name \in DOMAIN F |->
        F[name] \cup
        UNION {LET sym == g[q[1]].rhs[q[2]] IN
               CASE sym.k = "T" -> {sym.lit}
                 [] sym.k = "N" -> IF sym.name \in DOMAIN F THEN F[sym.name] ELSE {}
                 [] sym.k = "P" -> IF sym.typ \in DOMAIN F THEN F[sym.typ] ELSE {}
               : q \in {r \in UNION {{<<p, k>> : k \in 1..Len(g[p].rhs)} : p \in 1..Len(g)} :
                           /\ g[r[1]].lhs = name
                           /\ \A k \in 1..(r[2] - 1) :
                                  LET lead == g[r[1]].rhs[k] IN
                                  \/ lead.k = "N" /\ lead.name \in NullableNames(g)
                                  \/ lead.k = "P" /\ lead.typ \in NullableNames(g)}}]

RECURSIVE FirstFix(_, _)
FirstFix(g, F) == IF FirstStep(g, F) = F THEN F ELSE FirstFix(g, FirstStep(g, F))

FirstOf(g, name) ==
    LET F == FirstFix(g, [x \in SymbolNames(g) |-> {}])
    IN  IF name \in DOMAIN F THEN F[name] ELSE {}

\* The terminals that can come next after the in-progress items of the set
\* at the failure position of call c.
ExpectedNext(c) ==
    LET set  == calls[c].sets[calls[c].error.pos]
        live == {k \in DOMAIN set : k.dot < Len(Prod(grammar, k.prod_id).rhs)}
    IN  UNION {LET sym == Prod(grammar, k.prod_id).rhs[k.dot + 1] IN
               CASE sym.k = "T" -> {sym.lit}
                 [] sym.k = "N" -> FirstOf(grammar, sym.name)
                 [] sym.k = "P" -> {}
               : k \in live}

\* C17: the expected list of a ParseError is sorted, has no duplicates, and
\* its elements are exactly the terminals that can come next after the
\* in-progress items at the failure position: the terminal of a Terminal next
\* symbol and the FIRST set of a NonTerminal next symbol, FIRST going through
\* nonterminals, placeholder types and nullable leading symbols.
C17_ExpectedIsFirstUnion ==
    \A c \in DOMAIN calls :
        calls[c].result = "ParseError" =>
            LET expected == calls[c].error.expected IN
            /\ \A i \in 1..(Len(expected) - 1) : TextLess(expected[i], expected[i + 1])
            /\ Range(expected) = ExpectedNext(c)

RECURSIVE ConcatTexts(_)
ConcatTexts(toks) ==
    IF toks = <<>> THEN <<>> ELSE Head(toks).text \o ConcatTexts(Tail(toks))

\* C18: the tokens of an input partition its byte range: the first span
\* starts at 0, each span starts where the one before ends, the last span
\* ends at the input's length, no span is empty, and the texts of the tokens
\* concatenated in order are the input.
C18_TokensPartitionInput ==
    \A c \in DOMAIN calls :
        calls[c].pc # "tokenize" =>
            LET toks  == calls[c].tokens
                input == calls[c].input
            IN  /\ (toks = <<>>) <=> (input = <<>>)
                /\ toks # <<>> =>
                       /\ toks[1].span.start = 0
                       /\ toks[Len(toks)].span.end = ByteLen(input)
                /\ \A i \in 1..(Len(toks) - 1) : toks[i + 1].span.start = toks[i].span.end
                /\ \A i \in 1..Len(toks) : toks[i].span.start < toks[i].span.end
                /\ ConcatTexts(toks) = input

NumberChar(ch) == ch \in Digits \/ ch = "."

\* Index i of input lies inside a string literal: an odd number of quotes
\* comes before it.
InString(input, i) ==
    Cardinality({j \in 1..(i - 1) : input[j] = "\""}) % 2 = 1

\* The first and last index of the maximal stretch of digits and '.' around i.
BlockStart(input, i) ==
    CHOOSE j \in 1..i :
        /\ \A k \in j..i : NumberChar(input[k])
        /\ j = 1 \/ ~NumberChar(input[j - 1])

BlockEnd(input, i) ==
    CHOOSE j \in i..Len(input) :
        /\ \A k \in i..j : NumberChar(input[k])
        /\ j = Len(input) \/ ~NumberChar(input[j + 1])

\* The indexes where a maximal run that starts at a digit begins: the first
\* digit of a stretch outside the string literals.
RunStarts(input) ==
    {i \in 1..Len(input) :
        /\ input[i] \in Digits
        /\ ~InString(input, i)
        /\ \A k \in BlockStart(input, i)..(i - 1) : input[k] = "."}

\* C19: for every maximal run of digits and '.' that starts at a digit the
\* tokens that lie in the run's bytes are: one Int token with the run as
\* text when the run parses as an i64; else one Float token when it parses
\* as an f64; else one Char token for each character of the run; no other
\* token overlaps the run, and at most one token of the run is numeric.
C19_OneNumericTokenPerRun ==
    \A c \in DOMAIN calls :
        calls[c].pc # "tokenize" =>
            \A s \in RunStarts(calls[c].input) :
                LET input  == calls[c].input
                    toks   == calls[c].tokens
                    e      == BlockEnd(input, s)
                    raw    == SubSeq(input, s, e)
                    bs     == ByteLen(SubSeq(input, 1, s - 1))
                    be     == bs + ByteLen(raw)
                    within == {i \in 1..Len(toks) :
                                 toks[i].span.start >= bs /\ toks[i].span.end <= be}
                IN  /\ \A i \in 1..Len(toks) :
                           (toks[i].span.start < be /\ toks[i].span.end > bs) => i \in within
                    /\ Cardinality({i \in within : toks[i].kind \in {"Int", "Float"}}) <= 1
                    /\ IF ParsesI64(raw) \/ ParsesF64(raw)
                       THEN \E i \in within :
                               /\ within = {i}
                               /\ toks[i] = Token(IF ParsesI64(raw) THEN "Int" ELSE "Float",
                                                  raw, bs, be)
                       ELSE /\ Cardinality(within) = Len(raw)
                            /\ \A k \in 1..Len(raw) :
                                   \E i \in within :
                                      toks[i] = Token("Char", <<raw[k]>>, bs + k - 1, bs + k)

\* '1.0.' is a run that parses neither as an integer nor as a float: four
\* Char tokens have been emitted.
C19_Witness ==
    /\ calls[1].pc # "tokenize"
    /\ calls[1].input = <<"1", ".", "0", ".">>
    /\ Len(calls[1].tokens) = 4
    /\ \A i \in 1..4 : calls[1].tokens[i].kind = "Char"

\* The token kind a builtin type name scans, whatever the case of its letters.
BuiltinKind(typ) ==
    CASE to_ascii_lowercase(typ) = "int" -> "Int"
      [] to_ascii_lowercase(typ) = "float" -> "Float"
      [] to_ascii_lowercase(typ) \in {"string", "str"} -> "StringLit"
      [] OTHER -> "none"

\* C20: a step of the recognizer that processes an item whose next symbol is
\* a Placeholder: when the type is a builtin name and the token at pos exists
\* and has the kind of that name, the step inserts the advanced item into
\* sets[pos + 1] and changes nothing else (no prediction); in every other
\* case it leaves every set but sets[pos] as it was and sets[pos] then holds
\* the item (pid, 0, pos) of every production whose lhs is the type name.
C20_PlaceholderScansOrPredicts ==
    [][\A c \in DOMAIN calls :
          (calls[c].pc = "keys" /\ calls'[c] # calls[c]) =>
             LET key    == CHOOSE k \in calls[c].keys : k \notin calls'[c].keys
                 rhs    == Prod(grammar, key.prod_id).rhs
                 sym    == rhs[key.dot + 1]
                 pos    == calls[c].pos
                 tokens == calls[c].tokens
                 before == calls[c].sets
                 after  == calls'[c].sets
                 adv    == ItemKey(key.prod_id, key.dot + 1, key.start)
             IN  (key.dot < Len(rhs) /\ sym.k = "P") =>
                    IF /\ BuiltinKind(sym.typ) # "none"
                       /\ pos < Len(tokens)
                       /\ tokens[pos + 1].kind = BuiltinKind(sym.typ)
                    THEN /\ adv \in DOMAIN after[pos + 1]
                         /\ DOMAIN after[pos + 1] = DOMAIN before[pos + 1] \cup {adv}
                         /\ \A i \in DOMAIN before : i # pos + 1 => after[i] = before[i]
                    ELSE /\ \A i \in DOMAIN before : i # pos => after[i] = before[i]
                         /\ \A pid \in ProdIds(grammar) :
                                Prod(grammar, pid).lhs = sym.typ
                                   => ItemKey(pid, 0, pos) \in DOMAIN after[pos]
      ]_vars

\* '1' on S: "{n:Int}" ; Int: "1x": the placeholder has scanned the Int
\* token and the production of the nonterminal Int was not predicted.
C20_Witness ==
    /\ rules = BuiltinNameRules
    /\ calls[1].input = <<"1">>
    /\ calls[1].start = "S"
    /\ calls[1].pc = "try_accept"
    /\ ItemKey(0, 1, 0) \in DOMAIN calls[1].sets[1]
    /\ ItemKey(1, 0, 0) \notin DOMAIN calls[1].sets[0]

\* The number of tokens under a tree, and the tokens under the first i
\* children of a node.
RECURSIVE Leaves(_)
RECURSIVE LeavesBefore(_, _)
Leaves(t) == IF t.kind = "Token" THEN 1 ELSE LeavesBefore(t, Len(t.children))

LeavesBefore(t, i) ==
    IF i = 0 THEN 0 ELSE LeavesBefore(t, i - 1) + Leaves(t.children[i])

\* The interior nodes of the tree t that starts at token start, each with
\* the token it starts at.
RECURSIVE WithStarts(_, _)
WithStarts(t, start) ==
    IF t.kind # "Node" THEN {}
    ELSE {<<t, start>>}
         \cup UNION {WithStarts(t.children[i], start + LeavesBefore(t, i - 1))
                     : i \in 1..Len(t.children)}

\* The edges of the children of node t that starts at token start.
ChildPath(t, start) ==
    [i \in 1..Len(t.children) |->
        Edge(IF t.children[i].kind = "Token" THEN TOKEN_EDGE ELSE t.children[i].rule,
             start + LeavesBefore(t, i))]

\* The edges that can stand for symbol sym at token position start.
Candidates(g, chart, tokens, sym, start) ==
    LET stored(lhs) == IF start \in DOMAIN chart
                       THEN {e \in Range(chart[start]) : Prod(g, e.rule).lhs = lhs} ELSE {}
        leaf        == {Edge(TOKEN_EDGE, start + 1)}
    IN  CASE sym.k = "T" ->
               IF start < Len(tokens) /\ tokens[start + 1].text = sym.lit THEN leaf ELSE {}
          [] sym.k = "N" -> stored(sym.name)
          [] sym.k = "P" ->
               IF start < Len(tokens) /\ tokens[start + 1].kind = BuiltinKind(sym.typ)
               THEN leaf ELSE stored(sym.typ)

\* Every sequence of edges that matches symbols[depth+1..] from start to finish.
RECURSIVE PathsFrom(_, _, _, _, _, _, _)
PathsFrom(g, chart, tokens, symbols, finish, depth, start) ==
    IF depth = Len(symbols) THEN (IF start = finish THEN {<<>>} ELSE {})
    ELSE UNION {{<<e>> \o p : p \in PathsFrom(g, chart, tokens, symbols, finish,
                                               depth + 1, e.finish)}
                : e \in Candidates(g, chart, tokens, symbols[depth + 1], start)}

\* p comes before q when its edge is the earlier one at the first place
\* where they differ.
PathBefore(p, q) ==
    \E i \in 1..Len(p) :
        /\ \A j \in 1..(i - 1) : p[j] = q[j]
        /\ EdgeBefore(p[i], q[i])

\* C21: the edge chart does not depend on the iteration order of the chart
\* sets and each of its lists is sorted by (production id, finish); the
\* top node of a returned tree is the lowest-id production of the start
\* symbol that spans all tokens; and the children of every node are the
\* first complete path, in that edge order, through the node's rhs.
C21_FirstMatchWins ==
    \A c \in DOMAIN calls :
        calls[c].tree.kind = "Node" =>
            LET call   == calls[c]
                n      == Len(call.tokens)
                charts == ChartsOfItems(grammar, call.sets)
                chart  == CHOOSE ch \in charts : TRUE
                tops   == {pid \in ProdIds(grammar) :
                              /\ Prod(grammar, pid).lhs = call.start
                              /\ ItemKey(pid, RhsLen(grammar, pid), 0) \in DOMAIN call.sets[n]}
            IN  /\ charts = {chart}
                /\ \A st \in DOMAIN chart :
                       \A i \in 1..(Len(chart[st]) - 1) :
                          EdgeBefore(chart[st][i], chart[st][i + 1])
                /\ call.tree.rule \in tops
                /\ \A pid \in tops : call.tree.rule <= pid
                /\ Leaves(call.tree) = n
                /\ \A w \in WithStarts(call.tree, 0) :
                       LET t     == w[1]
                           path  == ChildPath(t, w[2])
                           paths == PathsFrom(grammar, chart, call.tokens,
                                              Prod(grammar, t.rule).rhs,
                                              w[2] + Leaves(t), 0, w[2])
                       IN  /\ path \in paths
                           /\ \A q \in paths : q = path \/ PathBefore(path, q)

\* '1+1+1' has two derivations from Expr; the tree returned is the one whose
\* left operand is the first literal alone: Add(Num, '+', Add(Num, '+', Num)).
C21_Witness ==
    /\ rules = ExprRules
    /\ calls[1].input = <<"1", "+", "1", "+", "1">>
    /\ calls[1].start = "Expr"
    /\ calls[1].tree.kind = "Node"
    /\ calls[1].tree.rule = 1
    /\ calls[1].tree.children[1].rule = 0
    /\ calls[1].tree.children[3].rule = 1
    /\ Cardinality(PathsFrom(grammar, CHOOSE ch \in ChartsOfItems(grammar, calls[1].sets) : TRUE,
                             calls[1].tokens, Prod(grammar, 1).rhs, 5, 0, 0)) = 2

\* The productions of g in every order.
Reorderings(g) == {[i \in 1..Len(g) |-> g[o[i]]] : o \in Orders(1..Len(g))}

\* N is closed: the lhs of every production whose rhs lies in N is in N.
NullableClosed(g, N) ==
    \A p \in 1..Len(g) :
        (\A k \in 1..Len(g[p].rhs) :
            LET sym == g[p].rhs[k] IN
            \/ sym.k = "N" /\ sym.name \in N
            \/ sym.k = "P" /\ sym.typ \in N)
        => g[p].lhs \in N

\* The call is about to compute the nullable set of a ready grammar.
AboutToRecognize(c) == engine = "ready" /\ calls[c].pc = "recognize"

\* C22: compute_nullable returns the least set closed under 'a production
\* whose rhs is empty or made only of nullable nonterminals and placeholders
\* of nullable type makes its lhs nullable'; the productions in any other
\* order give the same set; another pass over the result changes nothing.
C22_NullableIsLeastFixedPoint ==
    \A c \in DOMAIN calls :
        AboutToRecognize(c) =>
            LET N == compute_nullable(grammar) IN
            /\ NullableClosed(grammar, N)
            /\ \A M \in SUBSET {grammar[p].lhs : p \in 1..Len(grammar)} :
                   NullableClosed(grammar, M) => N \subseteq M
            /\ \A h \in Reorderings(grammar) : compute_nullable(h) = N
            /\ ~NullablePass(grammar, 1, N, FALSE).changed
            /\ NullableLoop(grammar, N) = N

\* A grammar with several nullable names where one pass over the
\* productions, in some order, does not find them all.
C22_Witness ==
    \E c \in DOMAIN calls :
        /\ AboutToRecognize(c)
        /\ Cardinality(compute_nullable(grammar)) >= 2
        /\ \E h \in Reorderings(grammar) :
               NullablePass(h, 1, {}, FALSE).nullable # compute_nullable(grammar)

\* The chart of the call exists: tokenize and Chart::new have run.
HasChart(c) == calls[c].pc # "tokenize"

\* C23: during and after recognize every chart set holds one item per key,
\* stored under its own key; adding a key again leaves the sets unchanged
\* and reports false; every key has a production id of the grammar, a dot
\* from 0 to the length of the rhs, and a start no later than its set.
C23_ChartItemsWellFormed ==
    \A c \in DOMAIN calls :
        HasChart(c) =>
            \A i \in DOMAIN calls[c].sets :
                \A k \in DOMAIN calls[c].sets[i] :
                    /\ calls[c].sets[i][k].key = k
                    /\ add_item(calls[c].sets, i, Item(k.prod_id, k.dot, k.start))
                           = [sets |-> calls[c].sets, added |-> FALSE]
                    /\ k.prod_id \in ProdIds(grammar)
                    /\ k.dot \in 0..RhsLen(grammar, k.prod_id)
                    /\ k.start \in 0..i

\* While the keys of a later set are processed, the set holds a scanned
\* item that started earlier, a completed item, and a predicted one.
C23_Witness ==
    \E c \in DOMAIN calls :
        /\ calls[c].pc = "keys"
        /\ calls[c].pos > 0
        /\ LET here == DOMAIN calls[c].sets[calls[c].pos] IN
           /\ \E k \in here : k.start < calls[c].pos /\ k.dot > 0
           /\ \E k \in here : k.dot = RhsLen(grammar, k.prod_id) /\ k.dot > 0
           /\ \E k \in here : k.start = calls[c].pos /\ k.dot = 0

\* The length of the longest rhs of g.
MaxRhsLen(g) ==
    IF g = <<>> THEN 0
    ELSE CHOOSE m \in {Len(g[p].rhs) : p \in 1..Len(g)} :
             \A p \in 1..Len(g) : Len(g[p].rhs) <= m

\* recognize has returned for the call.
RecognizeReturned(c) == calls[c].pc \in {"try_accept", "build", "value", "done"}

\* C24 as stated: after recognition every chart set has at most
\* |productions| * max_rhs_len * (n + 1) items.
C24_ItemsWithinStatedBound ==
    \A c \in DOMAIN calls :
        RecognizeReturned(c) =>
            \A i \in DOMAIN calls[c].sets :
                Cardinality(DOMAIN calls[c].sets[i])
                    <= Len(grammar) * MaxRhsLen(grammar) * (Len(calls[c].tokens) + 1)

\* C24, amended: the dot of an item takes max_rhs_len + 1 values, so after
\* recognition every chart set has at most
\* |productions| * (max_rhs_len + 1) * (n + 1) items.
C24_ItemsWithinDotBound ==
    \A c \in DOMAIN calls :
        RecognizeReturned(c) =>
            \A i \in DOMAIN calls[c].sets :
                Cardinality(DOMAIN calls[c].sets[i])
                    <= Len(grammar) * (MaxRhsLen(grammar) + 1) * (Len(calls[c].tokens) + 1)

\* After recognition a chart set holds more items than
\* |productions| * max_rhs_len * (n + 1).
C24_Witness ==
    \E c \in DOMAIN calls :
        /\ RecognizeReturned(c)
        /\ \E i \in DOMAIN calls[c].sets :
               Cardinality(DOMAIN calls[c].sets[i])
                   > Len(grammar) * MaxRhsLen(grammar) * (Len(calls[c].tokens) + 1)

\* The tokens at the leaves of a tree, left to right.
RECURSIVE Frontier(_)
RECURSIVE FrontierOf(_, _)
Frontier(t) == IF t.kind = "Token" THEN <<t.tok>> ELSE FrontierOf(t.children, 1)

FrontierOf(children, i) ==
    IF i > Len(children) THEN <<>>
    ELSE Frontier(children[i]) \o FrontierOf(children, i + 1)

\* child is a tree for the rhs symbol sym.
ChildMatches(g, sym, child) ==
    CASE sym.k = "T" -> child.kind = "Token" /\ child.tok.text = sym.lit
      [] sym.k = "N" -> child.kind = "Node" /\ Prod(g, child.rule).lhs = sym.name
      [] sym.k = "P" ->
           \/ child.kind = "Token" /\ child.tok.kind = BuiltinKind(sym.typ)
           \/ child.kind = "Node" /\ Prod(g, child.rule).lhs = sym.typ

\* C25: every interior node of a returned tree has one child per rhs symbol
\* of its production, child i is a tree for rhs symbol i (a token of equal
\* text for a Terminal, a token of the builtin kind or a node of the type
\* for a Placeholder, a node of the name for a NonTerminal), and the
\* children cover the tokens from the node's start to its finish with no
\* gap: the leaves under the node are the tokens from its start on, and the
\* leaves of the whole tree are the tokens of the input.
C25_TreeMatchesProductions ==
    \A c \in DOMAIN calls :
        calls[c].tree.kind = "Node" =>
            /\ Frontier(calls[c].tree) = calls[c].tokens
            /\ \A w \in WithStarts(calls[c].tree, 0) :
                   LET t   == w[1]
                       rhs == Prod(grammar, t.rule).rhs
                   IN  /\ Len(t.children) = Len(rhs)
                       /\ \A i \in 1..Len(rhs) : ChildMatches(grammar, rhs[i], t.children[i])
                       /\ Frontier(t) = [j \in 1..Leaves(t) |-> calls[c].tokens[w[2] + j]]

\* For the children of the nodes of the call's tree: the kind of the rhs
\* symbol with the kind of the child.
ChildKinds(c) ==
    UNION {{<<Prod(grammar, w[1].rule).rhs[i].k, w[1].children[i].kind>> :
               i \in 1..Len(w[1].children)} : w \in WithStarts(calls[c].tree, 0)}

\* A returned tree with a terminal leaf, a builtin placeholder leaf and a
\* placeholder filled by a node.
C25_Witness ==
    \E c \in DOMAIN calls :
        /\ calls[c].tree.kind = "Node"
        /\ {<<"T", "Token">>, <<"P", "Token">>, <<"P", "Node">>} \subseteq ChildKinds(c)

\* The field map the Resource arm computes for node t of production rule.
FieldsAsResource(g, t) ==
    LET rule == Prod(g, t.rule) IN
    StaticFields(g, t, "Resource", rule.out.fields, DOMAIN rule.out.fields,
                 ResourceFields(g, rule.rhs, t.children, 1, EmptyMap))

\* C26: the value of a node with a Dict output has the field map that the
\* rules of a Resource output give for the same node: a NonTerminal child
\* that evaluates to a __Propagate__ Resource has its fields merged in, and
\* an identifier static field has the same value.
C26_DictFieldsAsResource ==
    \A c \in DOMAIN calls :
        calls[c].tree.kind = "Node" /\ calls[c].pc = "done" /\ calls[c].result = "Ok" =>
            \A t \in NodesOf(c, {"Dict"}) :
                compute_value(grammar, t).fields = FieldsAsResource(grammar, t)

\* In node t, key is also set by a static field or by a rhs symbol in js.
SetElsewhere(t, js, key) ==
    \/ key \in DOMAIN Prod(grammar, t.rule).out.fields
    \/ \E j \in js : key \in KeysAt(t, j)

\* C27: in a node with a Resource output, a NonTerminal child whose value
\* is a __Propagate__ Resource puts each of its fields under the field's own
\* key and puts nothing under the nonterminal's name; a NonTerminal child
\* with any other value is stored under the nonterminal's name (a later
\* symbol or a static field that sets the same key replaces the entry).
C27_PropagateMergesFields ==
    \A c \in DOMAIN calls :
        \A t \in NodesOf(c, {"Resource"}) :
            LET rhs == Prod(grammar, t.rule).rhs
                v   == compute_value(grammar, t)
            IN  \A i \in {k \in 1..Len(rhs) : rhs[k].k = "N"} :
                    LET cv    == compute_value(grammar, t.children[i])
                        name  == rhs[i].name
                        later == {j \in 1..Len(rhs) : j > i}
                        other == {j \in 1..Len(rhs) : j # i}
                    IN  IF cv.k = "Resource" /\ cv.typ = "__Propagate__"
                        THEN /\ \A key \in DOMAIN cv.fields :
                                  /\ key \in DOMAIN v.fields
                                  /\ \/ v.fields[key] = cv.fields[key]
                                     \/ SetElsewhere(t, later, key)
                             /\ name \in DOMAIN v.fields =>
                                  \/ name \in DOMAIN cv.fields
                                  \/ SetElsewhere(t, other, name)
                        ELSE /\ name \in DOMAIN v.fields
                             /\ \/ v.fields[name] = cv
                                \/ SetElsewhere(t, later, name)

\* '1xx2' as P: B gives the __Propagate__ resource {v: 1}, and the result
\* Q has v = 1 and no key B; C is stored under its name.
C27_Witness ==
    /\ rules = PropagateRules
    /\ calls[1].pc = "done"
    /\ calls[1].result = "Ok"
    /\ calls[1].input = <<"1", "x", "x", "2">>
    /\ calls[1].value.typ = "Q"
    /\ DOMAIN calls[1].value.fields = {"v", "C"}
    /\ calls[1].value.fields["v"] = ValueInto(VInteger(1))

\* C28: a node whose output is Value(Identifier(name)) has the value of its
\* own child under the placeholder named name, and "<missing_placeholder>"
\* only when its rhs has no such placeholder; a node whose output is a
\* scalar Value has that scalar.
C28_ValueOfOwnPlaceholder ==
    \A c \in DOMAIN calls :
        \A t \in NodesOf(c, {"Value"}) :
            LET rule == Prod(grammar, t.rule)
                spec == rule.out.val
                v    == compute_value(grammar, t)
                i    == PlaceholderIndex(rule.rhs, spec.id, 1)
            IN  CASE spec.k = "Identifier" ->
                       IF i # 0 THEN v = compute_value(grammar, t.children[i])
                       ELSE v = VString(MissingPlaceholder)
                  [] spec.k = "IntegerLiteral" -> v.k = "Integer" /\ v.n = spec.n
                  [] spec.k = "FloatLiteral" -> v.k = "Float" /\ v.n = spec.n
                  [] spec.k = "StringLiteral" -> v.k = "String" /\ v.s = spec.s
                  [] spec.k = "BoolLiteral" -> v.k = "Bool" /\ v.b = spec.b

\* The symbol before the dot of key k in sets[pos] is matched by the token
\* before pos, and the item with the dot one back is in sets[pos - 1].
JustifiedByToken(c, pos, k) ==
    LET sym == SymAt(grammar, k.prod_id, k.dot - 1)
    IN  /\ pos > 0
        /\ ItemKey(k.prod_id, k.dot - 1, k.start) \in DOMAIN calls[c].sets[pos - 1]
        /\ \/ sym.k = "T" /\ calls[c].tokens[pos].text = sym.lit
           \/ sym.k = "P" /\ calls[c].tokens[pos].kind = BuiltinKind(sym.typ)

\* The symbol before the dot of key k in sets[pos] has a completed item
\* from some st to pos, and the item with the dot one back is in sets[st].
JustifiedByCompletion(c, pos, k) ==
    LET sym == SymAt(grammar, k.prod_id, k.dot - 1)
        lhs == IF sym.k = "N" THEN sym.name ELSE sym.typ
    IN  /\ sym.k \in {"N", "P"}
        /\ \E j \in ProdIds(grammar), st \in 0..pos :
              /\ Prod(grammar, j).lhs = lhs
              /\ ItemKey(j, RhsLen(grammar, j), st) \in DOMAIN calls[c].sets[pos]
              /\ ItemKey(k.prod_id, k.dot - 1, k.start) \in DOMAIN calls[c].sets[st]

\* C29: when recognize has returned, every item with the dot after a symbol
\* is justified: the symbol is matched by the previous token and the item
\* with the dot before it is in the previous set, or the symbol has a
\* completed item in the same set that starts where an item with the dot
\* before it is (for a symbol skipped by nullable advancement: a completed
\* item that starts and ends at this position).
C29_ItemsAreJustified ==
    \A c \in DOMAIN calls :
        RecognizeReturned(c) =>
            \A pos \in DOMAIN calls[c].sets :
                \A k \in DOMAIN calls[c].sets[pos] :
                    k.dot > 0 =>
                        \/ JustifiedByToken(c, pos, k)
                        \/ JustifiedByCompletion(c, pos, k)

\* The text of a pattern made of literal text only.
RECURSIVE LiteralText(_)
LiteralText(symbols) ==
    IF symbols = <<>> THEN <<>> ELSE Head(symbols).lit \o LiteralText(Tail(symbols))

\* The written rules of lhs whose pattern is literal text only.
LiteralRulesOf(lhs) ==
    {i \in 1..Len(rules) :
        /\ rules[i].lhs = lhs
        /\ rules[i].pattern.kind = "Normal"
        /\ \A j \in 1..Len(rules[i].pattern.symbols) : rules[i].pattern.symbols[j].k = "T"}

\* C30: a rule whose pattern is literal text T accepts the input T: the
\* tokens of T are the code points of T one for one, and parse(T, lhs) succeeds.
C30_LiteralPatternAcceptsItself ==
    \A c \in DOMAIN calls :
        \A i \in LiteralRulesOf(calls[c].start) :
            (engine = "ready" /\ calls[c].input = LiteralText(rules[i].pattern.symbols)) =>
                /\ calls[c].pc # "tokenize" =>
                       /\ Len(calls[c].tokens) = Len(calls[c].input)
                       /\ \A j \in 1..Len(calls[c].tokens) :
                              calls[c].tokens[j].text = <<calls[c].input[j]>>
                /\ calls[c].pc = "done" => calls[c].result = "Ok"

=============================================================================
